---- MODULE Spec2Model ----
(***************************************************************************)
(* A model of the GUI service's transport layer (ui/api/transport.go) and  *)
(* of the API client it calls (pkg sdk: processRequest, PageMetadata.query)*)
(*                                                                         *)
(* Specifications:                                                         *)
(*   Spec       the HTTP server: decode, endpoint, encode, per request     *)
(*   SpecSDK    processRequest for each argument list of a bounded domain  *)
(*   SpecQuery  PageMetadata.query for each value of a bounded domain      *)
(*   SpecErr    encodeError applied to every error of a bounded domain     *)
(*   SpecRace   two requests served concurrently, sharing referer          *)
(*   SpecMain   main and its two goroutines, up to the end of the process  *)
(***************************************************************************)
EXTENDS Integers, Sequences, FiniteSets, TLC

VARIABLES
    pc,        \* position of the code under execution
    referer,   \* the package variable referer of transport.go
    r,         \* the http.Request being served (NoRequest: none)
    request,   \* the decoder's result, handed to the endpoint (NilReq: none)
    called,    \* the endpoint invoked for r ("none": not invoked)
    err,       \* the error handed to the error encoder (Nil: none)
    w,         \* the http.ResponseWriter of the request being answered
    response,  \* what the endpoint returned for r (NoResponse: nothing)
    reads,     \* the calls of csvr.Read made while r was decoded
    args,      \* the arguments of the API client call under execution
    httpReq,   \* the request processRequest has built (NoHTTP: none)
    sent,      \* the number of requests handed to the HTTP client
    httpResp,  \* what the HTTP client returned (NoReply: nothing yet)
    out,       \* what the API client call returned
    errs,      \* main: the values buffered in the channel errs
    signals,   \* main: the number of signals buffered in the channel c
    operand    \* main: the value each goroutine is about to send on errs

vars == <<pc, referer, r, request, called, err, w, response, reads,
          args, httpReq, sent, httpResp, out, errs, signals, operand>>

\* The variables of the server; those of main; those a handler of the
\* server leaves alone, the API client's and main's.
serverVars == <<referer, r, request, called, err, w, response, reads>>
mainVars   == <<errs, signals, operand>>
clientVars == <<args, httpReq, sent, httpResp, out, mainVars>>

(***************************************************************************)
(* Bounds                                                                  *)
(***************************************************************************)
\* How many times an error is wrapped (errors.Wrap) around an innermost error.
MaxWrap == 1

(***************************************************************************)
(* Package errors (github.com/mainflux/mainflux/pkg/errors), as used by    *)
(* the transport.  An error value is                                       *)
(*   kind "custom": a chain of customError layers, msgs[1] the outermost   *)
(*   kind "plain" : an error of another package (net/http, encoding/json)  *)
(*   kind "rpc"   : a gRPC status error with a code                        *)
(*   kind "nil"   : the nil error                                          *)
(***************************************************************************)
Nil == [kind |-> "nil", msgs |-> <<>>, code |-> "none"]

\* errors.New(text)
New(m) == [kind |-> "custom", msgs |-> <<m>>, code |-> "none"]

\* An error of a standard-library package whose Error() is m.
Plain(m) == [kind |-> "plain", msgs |-> <<m>>, code |-> "none"]

\* The text of a gRPC status error: "rpc error: code = <c> desc = ...".
RpcText(c) ==
    CASE c = "PermissionDenied" -> "rpc error: code = PermissionDenied"
      [] c = "Unavailable"      -> "rpc error: code = Unavailable"
      [] c = "Unauthenticated"  -> "rpc error: code = Unauthenticated"
      [] OTHER                  -> "rpc error: code = Unknown"

\* status.Error(c, ...): an error that carries a gRPC status.
StatusError(c) == [kind |-> "rpc", msgs |-> <<RpcText(c)>>, code |-> c]

\* err.Error(): the layers' messages joined by " : ".  The joined text is
\* represented by the sequence of the messages it joins.
ErrorString(e) == e.msgs

\* customError.Msg(): the message of the outermost layer.
Msg(e) == Head(e.msgs)

\* customError.Err(): the wrapped error, nil for the innermost layer.
Err(e) == IF Len(e.msgs) <= 1 THEN Nil ELSE [e EXCEPT !.msgs = Tail(@)]

\* cast(err): an error of another package becomes a single customError layer
\* that keeps only its text (a gRPC status is lost).
Cast(e) ==
    IF e.kind = "nil" THEN Nil
    ELSE IF e.kind = "custom" THEN e
    ELSE New(Head(e.msgs))

\* errors.Wrap(wrapper, err)
Wrap(wrapper, e) ==
    IF wrapper.kind = "nil" \/ e.kind = "nil" THEN wrapper
    ELSE [kind |-> "custom", msgs |-> <<Msg(wrapper)>> \o Cast(e).msgs, code |-> "none"]

\* errors.Contains(e1, e2): e2's text is the message of some layer of e1.
RECURSIVE Contains(_, _)
Contains(e1, e2) ==
    IF e1.kind = "nil" \/ e2.kind = "nil" THEN e1 = e2
    ELSE IF e1.kind = "custom"
         THEN IF <<Msg(e1)>> = ErrorString(e2) THEN TRUE ELSE Contains(Err(e1), e2)
    ELSE ErrorString(e1) = ErrorString(e2)

\* status.FromError(err): ok exactly for an error that carries a gRPC status.
FromErrorOk(e) == e.kind = "rpc"
FromErrorCode(e) == IF e.kind = "rpc" THEN e.code ELSE "Unknown"

(***************************************************************************)
(* The sentinel errors of transport.go                                     *)
(***************************************************************************)
errMalformedData     == New("malformed request data")
errMalformedSubtopic == New("malformed subtopic")
errNoCookie          == New("failed to read token cookie")
errUnauthorized      == New("failed to login")
ErrAuthentication    == New("failed to perform authentication over the entity")
\* ui.ErrUnauthorizedAccess: declared by package ui; its text is distinct
\* from the five above.
ErrUnauthorizedAccess == New("ui: unauthorized access")
\* sdk.ErrFailedCreation, an error of none of the kinds encodeError names.
ErrFailedCreation    == New("failed to create entity in the db")
\* http.ErrNoCookie
HttpErrNoCookie      == Plain("http: named cookie not present")

Sentinels ==
    { errMalformedData, errMalformedSubtopic, errNoCookie, errUnauthorized,
      ErrAuthentication, ErrUnauthorizedAccess, ErrFailedCreation }

Codes == {"PermissionDenied", "Unavailable", "Unauthenticated", "Unknown"}

\* Innermost errors: the sentinels, standard-library errors (one with a text
\* of its own, and ones whose text equals a sentinel's), gRPC status errors.
Leaves ==
    Sentinels \cup {HttpErrNoCookie}
        \cup { Plain(Msg(s)) : s \in Sentinels }
        \cup { StatusError(c) : c \in Codes }

RECURSIVE Wrapped(_)
Wrapped(n) ==
    IF n = 0 THEN Leaves
    ELSE LET prev == Wrapped(n - 1)
         IN  prev \cup { Wrap(s, e) : s \in Sentinels, e \in prev }

\* The errors encodeError is applied to.
Errors == Wrapped(MaxWrap)

(***************************************************************************)
(* http.ResponseWriter                                                     *)
(***************************************************************************)
StatusFound               == 302
StatusSeeOther            == 303
StatusBadRequest          == 400
StatusForbidden           == 403
StatusInternalServerError == 500
StatusServiceUnavailable  == 503

\* A response writer nothing has been written to: no header, no status.
\* trace lists the calls made on the writer, in their order.
NewWriter == [header |-> [k \in {} |-> ""], status |-> 0, body |-> <<>>, trace |-> <<>>]

\* w.Write(bytes)
Write(rw, bytes) == [rw EXCEPT !.body = @ \o bytes, !.trace = Append(@, <<"Write", "">>)]

\* w.Header().Set(k, v)
HeaderSet(rw, k, v) ==
    [rw EXCEPT !.header = [x \in DOMAIN rw.header \cup {k} |->
                              IF x = k THEN v ELSE rw.header[x]],
               !.trace = Append(@, <<"Set", k>>)]

\* w.WriteHeader(code): the first call decides the status.
WriteHeader(rw, code) ==
    [rw EXCEPT !.status = IF @ = 0 THEN code ELSE @,
               !.trace = Append(@, <<"WriteHeader", "">>)]

HasHeader(rw, k) == k \in DOMAIN rw.header


(***************************************************************************)
(* The API client at rest                                                  *)
(***************************************************************************)
NoArgs == [call |-> "none"]
NoHTTP == [built |-> FALSE]
NoOut  == [returned |-> FALSE]
NoReply == [received |-> FALSE]

ClientIdle ==
    /\ args = NoArgs
    /\ httpReq = NoHTTP
    /\ sent = 0
    /\ httpResp = NoReply
    /\ out = NoOut
    /\ errs = <<>>
    /\ signals = 0
    /\ operand = <<>>

(***************************************************************************)
(* Inbound requests                                                        *)
(*                                                                         *)
(* A path is the sequence of its segments after the leading "/": "/" is    *)
(* <<"">>, "/things/t1" is <<"things", "t1">>.  r.URL.String() is          *)
(* represented by the path; the empty string by the empty sequence.        *)
(***************************************************************************)
NoCookie  == "<no cookie>"
NoFile    == [name |-> <<>>, rows |-> <<>>]
NoRequest == [method |-> "<none>"]
NilReq    == [type |-> "nil"]
NoResponse == [type |-> "nil"]

\* The default values of the request parts a decoder does not read.
BaseRequest(method, path) ==
    [ method   |-> method,
      path     |-> path,
      token    |-> NoCookie,     \* the value of the cookie "token"
      refresh  |-> NoCookie,     \* the value of the cookie "refresh_token"
      formOK   |-> TRUE,         \* r.ParseForm() succeeds
      metadata |-> "valid",      \* the form field "metadata": absent, invalid or valid JSON
      tags     |-> "valid",      \* the form field "tags"
      actions  |-> "valid",      \* the form field "actions"
      body     |-> "valid",      \* the JSON body: invalid or valid
      chanID   |-> "c1",         \* the form field "chanID"
      thingID  |-> "t1",         \* the form field "thingID"
      file     |-> NoFile ]      \* the uploaded file

URLString(rq) == rq.path

(***************************************************************************)
(* MakeHandler: the routes, in the order of their registration             *)
(***************************************************************************)
R(method, path, decoder, endpoint) ==
    [method |-> method, path |-> IF path = <<>> THEN <<"">> ELSE path,
     decoder |-> decoder, endpoint |-> endpoint]

Routes == <<
      R("GET", <<>>, "decodeIndexRequest", "indexEndpoint"),
      R("GET", <<"login">>, "decodeLoginRequest", "loginEndpoint"),
      R("POST", <<"login">>, "decodeTokenRequest", "tokenEndpoint"),
      R("GET", <<"refresh_token">>, "decodeRefreshTokenRequest", "refreshTokenEndpoint"),
      R("GET", <<"logout">>, "decodeLogoutRequest", "logoutEndpoint"),
      R("POST", <<"password">>, "decodePasswordUpdate", "updatePasswordEndpoint"),
      R("GET", <<"password">>, "decodePasswordReset", "showUpdatePasswordEndpoint"),
      R("POST", <<"users">>, "decodeUserCreation", "createUserEndpoint"),
      R("POST", <<"users", "bulk">>, "decodeUsersCreation", "createUsersEndpoint"),
      R("GET", <<"users">>, "decodeListUsersRequest", "listUsersEndpoint"),
      R("POST", <<"users", "enabled">>, "decodeUserStatusUpdate", "enableUserEndpoint"),
      R("POST", <<"users", "disabled">>, "decodeUserStatusUpdate", "disableUserEndpoint"),
      R("GET", <<"users", ":id">>, "decodeView", "viewUserEndpoint"),
      R("POST", <<"users", ":id">>, "decodeUserUpdate", "updateUserEndpoint"),
      R("POST", <<"users", ":id", "tags">>, "decodeUserTagsUpdate", "updateUserTagsEndpoint"),
      R("POST", <<"users", ":id", "identity">>, "decodeUserIdentityUpdate", "updateUserIdentityEndpoint"),
      R("POST", <<"things">>, "decodeThingCreation", "createThingEndpoint"),
      R("POST", <<"things", "bulk">>, "decodeThingsCreation", "createThingsEndpoint"),
      R("GET", <<"things">>, "decodeListThingsRequest", "listThingsEndpoint"),
      R("POST", <<"things", "enabled">>, "decodeThingStatusUpdate", "enableThingEndpoint"),
      R("POST", <<"things", "disabled">>, "decodeThingStatusUpdate", "disableThingEndpoint"),
      R("GET", <<"things", ":id">>, "decodeView", "viewThingEndpoint"),
      R("POST", <<"things", ":id">>, "decodeThingUpdate", "updateThingEndpoint"),
      R("POST", <<"things", ":id", "tags">>, "decodeThingTagsUpdate", "updateThingTagsEndpoint"),
      R("POST", <<"things", ":id", "secret">>, "decodeThingSecretUpdate", "updateThingSecretEndpoint"),
      R("POST", <<"things", ":id", "owner">>, "decodeThingOwnerUpdate", "updateThingOwnerEndpoint"),
      R("GET", <<"things", ":id", "channels">>, "decodeView", "listChannelsByThingEndpoint"),
      R("POST", <<"things", ":id", "connect">>, "decodeConnectChannel", "connectChannelEndpoint"),
      R("POST", <<"disconnectChannel">>, "decodeDisconnectChannel", "disconnectChannelEndpoint"),
      R("POST", <<"channels">>, "decodeChannelCreation", "createChannelEndpoint"),
      R("POST", <<"channels", "bulk">>, "decodeChannelsCreation", "createChannelsEndpoint"),
      R("POST", <<"channels", "enabled">>, "decodeChannelStatusUpdate", "enableChannelEndpoint"),
      R("POST", <<"channels", "disabled">>, "decodeChannelStatusUpdate", "disableChannelEndpoint"),
      R("GET", <<"channels", ":id">>, "decodeView", "viewChannelEndpoint"),
      R("POST", <<"channels", ":id">>, "decodeChannelUpdate", "updateChannelEndpoint"),
      R("GET", <<"channels">>, "decodeListChannelsRequest", "listChannelsEndpoint"),
      R("POST", <<"channels", ":id", "connectThing">>, "decodeConnectThing", "connectThingEndpoint"),
      R("POST", <<"channels", ":id", "shareThing">>, "decodeShareThingRequest", "shareThingEndpoint"),
      R("POST", <<"disconnectThing">>, "decodeDisconnectThing", "disconnectThingEndpoint"),
      R("POST", <<"connect">>, "decodeConnect", "connectEndpoint"),
      R("POST", <<"disconnect">>, "decodeDisconnect", "disconnectEndpoint"),
      R("GET", <<"channels", ":id", "things">>, "decodeView", "listThingsByChannelEndpoint"),
      R("GET", <<"things_policies">>, "decodeListPoliciesRequest", "listThingsPoliciesEndpoint"),
      R("POST", <<"things_policies">>, "decodeAddThingsPolicyRequest", "addThingsPolicyEndpoint"),
      R("POST", <<"things_policies", "update">>, "decodeUpdatePolicyRequest", "updateThingsPolicyEndpoint"),
      R("POST", <<"things_policies", "delete">>, "decodeDeleteThingsPolicyRequest", "deleteThingsPolicyEndpoint"),
      R("POST", <<"groups">>, "decodeGroupCreation", "createGroupEndpoint"),
      R("GET", <<"groups">>, "decodeListGroupsRequest", "listGroupsEndpoint"),
      R("POST", <<"groups", "bulk">>, "decodeGroupsCreation", "createGroupsEndpoint"),
      R("POST", <<"groups", "enabled">>, "decodeGroupStatusUpdate", "enableGroupEndpoint"),
      R("POST", <<"groups", "disabled">>, "decodeGroupStatusUpdate", "disableGroupEndpoint"),
      R("GET", <<"groups", ":id">>, "decodeView", "viewGroupEndpoint"),
      R("GET", <<"groups", ":id", "members">>, "decodeView", "listGroupMembersEndpoint"),
      R("POST", <<"groups", ":id">>, "decodeGroupUpdate", "updateGroupEndpoint"),
      R("POST", <<"groups", ":id", "members">>, "decodeAssignRequest", "assignEndpoint"),
      R("POST", <<"groups", ":id", "unassign">>, "decodeUnassignRequest", "unassignEndpoint"),
      R("GET", <<"policies">>, "decodeListPoliciesRequest", "listPoliciesEndpoint"),
      R("POST", <<"policies">>, "decodeAddPolicyRequest", "addPolicyEndpoint"),
      R("POST", <<"policies", "update">>, "decodeUpdatePolicyRequest", "updatePolicyEndpoint"),
      R("POST", <<"policies", "delete">>, "decodeDeletePolicyRequest", "deletePolicyEndpoint"),
      R("POST", <<"messages">>, "decodePublishRequest", "publishMessageEndpoint"),
      R("GET", <<"readmessages">>, "decodeReadMessageRequest", "readMessageEndpoint"),
      R("POST", <<"readmessages">>, "decodeWsConnectionRequest", "wsConnectionEndpoint"),
      R("GET", <<"deleted">>, "decodeListDeletedClientsRequest", "listDeletedClientsEndpoint")
>>

IsParam(seg) == seg \in {":id"}

\* Route.Match for a route with path parameters: as many segments as the
\* pattern, equal to it at every segment that is not a parameter.
MatchParam(pattern, path) ==
    /\ Len(path) = Len(pattern)
    /\ \A i \in 1..Len(pattern) : IsParam(pattern[i]) \/ pattern[i] = path[i]

HasParam(pattern) == \E i \in 1..Len(pattern) : IsParam(pattern[i])

\* Route.parse: a route with parameters matches by its pattern, a literal
\* route by equality of the paths.
RouteMatches(rt, method, path) ==
    /\ rt.method = method
    /\ IF HasParam(rt.path) THEN MatchParam(rt.path, path) ELSE rt.path = path

\* Mux.parse preferring the route registered last.
RouteOf_LastMatch(method, path) ==
    LET hits == { i \in 1..Len(Routes) : RouteMatches(Routes[i], method, path) }
    IN  IF hits = {} THEN 0 ELSE CHOOSE i \in hits : \A j \in hits : i >= j

\* Mux.parse: the first route of the request's method that matches, in the
\* order of registration; 0 when none does.
RouteOf(method, path) ==
    LET hits == { i \in 1..Len(Routes) : RouteMatches(Routes[i], method, path) }
    IN  IF hits = {} THEN 0 ELSE CHOOSE i \in hits : \A j \in hits : i <= j

\* bone.GetValue(r, "id")
GetValue(rt, path) ==
    IF \E i \in 1..Len(rt.path) : rt.path[i] = ":id"
        THEN path[CHOOSE i \in 1..Len(rt.path) : rt.path[i] = ":id"]
        ELSE ""


(***************************************************************************)
(* Errors of the standard library met while decoding                       *)
(***************************************************************************)
JsonEOFError    == Plain("unexpected end of JSON input")
JsonSyntaxError == Plain("invalid character looking for beginning of value")
ParseFormError  == Plain("invalid URL escape")
ErrMissingFile  == Plain("http: no such file")
CsvBareQuote    == Plain("parse error: bare \" in non-quoted-field")
CsvFieldCount   == Plain("record on line: wrong number of fields")
ErrUnsupportedFile == New("unsupported file type")

\* json.Unmarshal([]byte(field), &v) for a form field that is absent (the
\* empty text), not valid JSON, or valid.
Unmarshal(field) ==
    CASE field = "absent"  -> JsonEOFError
      [] field = "invalid" -> JsonSyntaxError
      [] OTHER             -> Nil

\* json.NewDecoder(r.Body).Decode(&data)
DecodeBody(rq) == IF rq.body = "valid" THEN Nil ELSE JsonSyntaxError

\* r.ParseForm()
ParseForm(rq) == IF rq.formOK THEN Nil ELSE ParseFormError

\* r.FormFile(name): the form is parsed first; a form without the file
\* fails with http.ErrMissingFile.
FormFile(rq) ==
    IF ~rq.formOK THEN ParseFormError
    ELSE IF rq.file = NoFile THEN ErrMissingFile
    ELSE Nil

\* strings.HasSuffix(s, suffix), on sequences of characters.
HasSuffix(str, suffix) ==
    /\ Len(str) >= Len(suffix)
    /\ SubSeq(str, Len(str) - Len(suffix) + 1, Len(str)) = suffix

DotCsv == <<".", "c", "s", "v">>

(***************************************************************************)
(* The decoders' results                                                   *)
(***************************************************************************)
\* What a decoder leaves: the value of referer, the request value and the
\* error it returns, or a fault (a run-time panic) before it returns.
Ret(ref, req, e) == [referer |-> ref, req |-> req, err |-> e, panic |-> FALSE, reads |-> 0]
Fault(ref)       == [referer |-> ref, req |-> NilReq, err |-> Nil, panic |-> TRUE, reads |-> 0]

\* The result d of a decoder that called csvr.Read n times.
AfterReads(d, n) == [d EXCEPT !.reads = n]

\* getAuthorization without the write of referer.
getAuthorization_KeepReferer(rq, ref) ==
    IF rq.token = NoCookie
        THEN [referer |-> ref, token |-> "", err |-> Wrap(errNoCookie, HttpErrNoCookie)]
        ELSE [referer |-> ref, token |-> rq.token, err |-> Nil]

\* getAuthorization reading the cookie first and recording the URL only when
\* the cookie is there.
getAuthorization_CookieFirst(rq, ref) ==
    IF rq.token = NoCookie
        THEN [referer |-> ref, token |-> "", err |-> Wrap(errNoCookie, HttpErrNoCookie)]
        ELSE [referer |-> URLString(rq), token |-> rq.token, err |-> Nil]

\* getAuthorization returning the cookie error of net/http as it is.
getAuthorization_NoWrap(rq, ref) ==
    IF rq.token = NoCookie
        THEN [referer |-> URLString(rq), token |-> "", err |-> HttpErrNoCookie]
        ELSE [referer |-> URLString(rq), token |-> rq.token, err |-> Nil]

\* getAuthorization: records the URL in referer, then reads the cookie
\* "token"; r.Cookie fails with http.ErrNoCookie only.
getAuthorization(rq, ref) ==
    IF rq.token = NoCookie
        THEN [referer |-> URLString(rq), token |-> "", err |-> Wrap(errNoCookie, HttpErrNoCookie)]
        ELSE [referer |-> URLString(rq), token |-> rq.token, err |-> Nil]

\* The decoders that only extract the token (and path or form values that
\* cannot fail): decodeIndexRequest, decodeList*Request, decodeView,
\* decodePasswordUpdate, decode*StatusUpdate, decodeAdd*PolicyRequest,
\* decodeDeleteThingsPolicyRequest, decodeAssignRequest, decodeUnassignRequest.
decodeAuthOnly(name, rt, rq, ref) ==
    LET a == getAuthorization(rq, ref)
    IN  IF a.err # Nil THEN Ret(a.referer, NilReq, a.err)
        ELSE Ret(a.referer,
                 [type |-> name, token |-> a.token, id |-> GetValue(rt, rq.path)], Nil)

decodeListThingsRequest(rt, rq, ref) ==
    LET a == getAuthorization(rq, ref)
    IN  IF a.err # Nil THEN Ret(a.referer, NilReq, a.err)
        ELSE Ret(a.referer, [type |-> "listThingsReq", token |-> a.token], Nil)

\* The decoders without a token recording the URL as getAuthorization does.
decodeNoAuth_Records(name, rt, rq, ref) == Ret(URLString(rq), [type |-> name], Nil)

\* decodeLoginRequest, decodePasswordReset, decodeTokenRequest,
\* decodeLogoutRequest: no cookie is read and nothing fails.
decodeNoAuth(name, rt, rq, ref) == Ret(ref, [type |-> name], Nil)

\* decodeRefreshTokenRequest asking for the cookie "token" as well.
decodeRefreshTokenRequest_NeedsToken(rt, rq, ref) ==
    IF rq.refresh = NoCookie \/ rq.token = NoCookie
        THEN Ret(ref, NilReq, Wrap(errNoCookie, HttpErrNoCookie))
        ELSE Ret(ref, [type |-> "refreshTokenReq", RefreshToken |-> rq.refresh,
                       ref |-> ref], Nil)

\* decodeRefreshTokenRequest giving the request an empty ref.
decodeRefreshTokenRequest_EmptyRef(rt, rq, ref) ==
    IF rq.refresh = NoCookie
        THEN Ret(ref, NilReq, Wrap(errNoCookie, HttpErrNoCookie))
        ELSE Ret(ref, [type |-> "refreshTokenReq", RefreshToken |-> rq.refresh,
                       ref |-> <<>>], Nil)

\* decodeRefreshTokenRequest: r.Cookie("refresh_token"), then referer is read.
decodeRefreshTokenRequest(rt, rq, ref) ==
    IF rq.refresh = NoCookie
        THEN Ret(ref, NilReq, Wrap(errNoCookie, HttpErrNoCookie))
        ELSE Ret(ref, [type |-> "refreshTokenReq", RefreshToken |-> rq.refresh,
                       ref |-> ref], Nil)

\* decodeUserCreation and decodeThingCreation extracting the token before
\* the form fields are unmarshalled.
decodeMetaTagsCreation_AuthFirst(name, rt, rq, ref) ==
    LET a == getAuthorization(rq, ref)
    IN  IF a.err # Nil THEN Ret(a.referer, NilReq, a.err)
        ELSE IF Unmarshal(rq.metadata) # Nil THEN Ret(a.referer, NilReq, Unmarshal(rq.metadata))
        ELSE IF Unmarshal(rq.tags) # Nil THEN Ret(a.referer, NilReq, Unmarshal(rq.tags))
        ELSE Ret(a.referer, [type |-> name, token |-> a.token], Nil)

\* decodeUserCreation and decodeThingCreation: the form fields metadata and
\* tags are unmarshalled, then the token is extracted.
decodeMetaTagsCreation(name, rt, rq, ref) ==
    IF Unmarshal(rq.metadata) # Nil THEN Ret(ref, NilReq, Unmarshal(rq.metadata))
    ELSE IF Unmarshal(rq.tags) # Nil THEN Ret(ref, NilReq, Unmarshal(rq.tags))
    ELSE LET a == getAuthorization(rq, ref)
         IN  IF a.err # Nil THEN Ret(a.referer, NilReq, a.err)
             ELSE Ret(a.referer, [type |-> name, token |-> a.token], Nil)

decodeUserCreation(rt, rq, ref) == decodeMetaTagsCreation("createUserReq", rt, rq, ref)

\* decodeChannelCreation and decodeGroupCreation: the form field metadata is
\* unmarshalled, then the token is extracted.
decodeMetaCreation(name, rt, rq, ref) ==
    IF Unmarshal(rq.metadata) # Nil THEN Ret(ref, NilReq, Unmarshal(rq.metadata))
    ELSE LET a == getAuthorization(rq, ref)
         IN  IF a.err # Nil THEN Ret(a.referer, NilReq, a.err)
             ELSE Ret(a.referer, [type |-> name, token |-> a.token], Nil)

\* The update decoders (decodeUserUpdate, decodeUserTagsUpdate,
\* decodeUserIdentityUpdate, decodeThing*Update, decodeChannelUpdate,
\* decodeGroupUpdate): the token is extracted, then the JSON body is decoded.
decodeBodyUpdate(name, rt, rq, ref) ==
    LET a == getAuthorization(rq, ref)
    IN  IF a.err # Nil THEN Ret(a.referer, NilReq, a.err)
        ELSE IF DecodeBody(rq) # Nil THEN Ret(a.referer, NilReq, DecodeBody(rq))
        ELSE Ret(a.referer,
                 [type |-> name, token |-> a.token, id |-> GetValue(rt, rq.path)], Nil)

decodeUserUpdate(rt, rq, ref) == decodeBodyUpdate("updateUserReq", rt, rq, ref)

\* The decoders that parse the form before they extract the token
\* (decodeShareThingRequest, decodeDisconnectThing, decodeDisconnectChannel,
\* decodeDeletePolicyRequest, decodePublishRequest, decodeReadMessageRequest,
\* decodeWsConnectionRequest).
decodeFormThenAuth(name, rt, rq, ref) ==
    IF ParseForm(rq) # Nil THEN Ret(ref, NilReq, ParseForm(rq))
    ELSE LET a == getAuthorization(rq, ref)
         IN  IF a.err # Nil THEN Ret(a.referer, NilReq, a.err)
             ELSE Ret(a.referer,
                      [type |-> name, token |-> a.token, id |-> GetValue(rt, rq.path)], Nil)

\* decodeConnectThing with the two identifiers exchanged.
decodeConnectThing_Swapped(rt, rq, ref) ==
    IF ParseForm(rq) # Nil THEN Ret(ref, NilReq, ParseForm(rq))
    ELSE LET a == getAuthorization(rq, ref)
         IN  IF a.err # Nil THEN Ret(a.referer, NilReq, a.err)
             ELSE Ret(a.referer,
                      [type |-> "connectThingReq", token |-> a.token,
                       ChannelIDs |-> <<rq.thingID>>,
                       ThingIDs |-> <<GetValue(rt, rq.path)>>], Nil)

\* decodeConnectThing: the channel is the path parameter, the thing the
\* form value thingID.
decodeConnectThing(rt, rq, ref) ==
    IF ParseForm(rq) # Nil THEN Ret(ref, NilReq, ParseForm(rq))
    ELSE LET a == getAuthorization(rq, ref)
         IN  IF a.err # Nil THEN Ret(a.referer, NilReq, a.err)
             ELSE Ret(a.referer,
                      [type |-> "connectThingReq", token |-> a.token,
                       ChannelIDs |-> <<GetValue(rt, rq.path)>>,
                       ThingIDs |-> <<rq.thingID>>], Nil)

\* decodeConnectChannel: the thing is the path parameter, the channel the
\* form value channelID.
decodeConnectChannel(rt, rq, ref) ==
    IF ParseForm(rq) # Nil THEN Ret(ref, NilReq, ParseForm(rq))
    ELSE LET a == getAuthorization(rq, ref)
         IN  IF a.err # Nil THEN Ret(a.referer, NilReq, a.err)
             ELSE Ret(a.referer,
                      [type |-> "connectChannelReq", token |-> a.token,
                       ChannelIDs |-> <<rq.chanID>>,
                       ThingIDs |-> <<GetValue(rt, rq.path)>>], Nil)

\* decodeUpdatePolicyRequest: form, token, then the form field actions.
decodeUpdatePolicyRequest(rt, rq, ref) ==
    IF ParseForm(rq) # Nil THEN Ret(ref, NilReq, ParseForm(rq))
    ELSE LET a == getAuthorization(rq, ref)
         IN  IF a.err # Nil THEN Ret(a.referer, NilReq, a.err)
             ELSE IF Unmarshal(rq.actions) # Nil
                 THEN Ret(a.referer, NilReq, Unmarshal(rq.actions))
             ELSE Ret(a.referer, [type |-> "updatePolicyReq", token |-> a.token], Nil)


(***************************************************************************)
(* The bulk decoders: an uploaded CSV file                                 *)
(*                                                                         *)
(* A file is its name (a sequence of characters) and its rows; a row is    *)
(* the sequence of its fields.  A field holding a bare quote makes the     *)
(* row malformed.                                                          *)
(***************************************************************************)
BareQuote == "a\"b"

HasBareQuote(row) == \E i \in 1..Len(row) : row[i] = BareQuote

\* The loop "for { row, err := csvr.Read() ... }" from row i on.  nf is the
\* reader's FieldsPerRecord (0 until the first record sets it), cols the
\* number of columns the loop body indexes, acc the columns collected.
\* reads counts the calls of csvr.Read, the one that fails or returns io.EOF
\* included.
\* The loop returning, at a row that does not parse, what earlier rows gave.
RECURSIVE csvLoop_KeepEarlier(_, _, _, _, _)
csvLoop_KeepEarlier(rows, i, nf, cols, acc) ==
    IF i > Len(rows)
        THEN [rows |-> acc, err |-> Nil, panic |-> FALSE, reads |-> i]
    ELSE IF HasBareQuote(rows[i]) \/ (nf > 0 /\ Len(rows[i]) # nf)
        THEN [rows |-> acc, err |-> Nil, panic |-> FALSE, reads |-> i]
    ELSE IF Len(rows[i]) < cols
        THEN [rows |-> <<>>, err |-> Nil, panic |-> TRUE, reads |-> i]
    ELSE csvLoop_KeepEarlier(rows, i + 1, Len(rows[i]), cols,
                             Append(acc, SubSeq(rows[i], 1, cols)))

RECURSIVE csvLoop(_, _, _, _, _)
csvLoop(rows, i, nf, cols, acc) ==
    IF i > Len(rows)
        THEN [rows |-> acc, err |-> Nil, panic |-> FALSE, reads |-> i]     \* io.EOF
    ELSE IF HasBareQuote(rows[i])
        THEN [rows |-> <<>>, err |-> CsvBareQuote, panic |-> FALSE, reads |-> i]
    ELSE IF nf > 0 /\ Len(rows[i]) # nf
        THEN [rows |-> <<>>, err |-> CsvFieldCount, panic |-> FALSE, reads |-> i]
    ELSE IF Len(rows[i]) < cols
        THEN [rows |-> <<>>, err |-> Nil, panic |-> TRUE, reads |-> i]     \* index out of range
    ELSE csvLoop(rows, i + 1, Len(rows[i]), cols,
                 Append(acc, SubSeq(rows[i], 1, cols)))

\* The column c of the rows, last row first.
Column_Reversed(acc, c) == [i \in 1..Len(acc) |-> acc[Len(acc) + 1 - i][c]]

Column(acc, c) == [i \in 1..Len(acc) |-> acc[i][c]]

\* The bulk decoders' head without the test of the file's name.
decodeBulk_NoSuffixCheck(rq, ref, cols) ==
    LET a == getAuthorization(rq, ref)
    IN  IF a.err # Nil THEN [referer |-> a.referer, token |-> "", err |-> a.err,
                             panic |-> FALSE, rows |-> <<>>, reads |-> 0]
        ELSE IF FormFile(rq) # Nil
            THEN [referer |-> a.referer, token |-> "", err |-> FormFile(rq),
                  panic |-> FALSE, rows |-> <<>>, reads |-> 0]
        ELSE LET l == csvLoop(rq.file.rows, 1, 0, cols, <<>>)
             IN  [referer |-> a.referer, token |-> a.token, err |-> l.err,
                  panic |-> l.panic, rows |-> l.rows, reads |-> l.reads]

\* The common head of the bulk decoders: token, file, suffix of its name;
\* then the rows are read.
decodeBulk(rq, ref, cols) ==
    LET a == getAuthorization(rq, ref)
    IN  IF a.err # Nil THEN [referer |-> a.referer, token |-> "", err |-> a.err,
                             panic |-> FALSE, rows |-> <<>>, reads |-> 0]
        ELSE IF FormFile(rq) # Nil
            THEN [referer |-> a.referer, token |-> "", err |-> FormFile(rq),
                  panic |-> FALSE, rows |-> <<>>, reads |-> 0]
        ELSE IF ~HasSuffix(rq.file.name, DotCsv)
            THEN [referer |-> a.referer, token |-> "", err |-> ErrUnsupportedFile,
                  panic |-> FALSE, rows |-> <<>>, reads |-> 0]
        ELSE LET l == csvLoop(rq.file.rows, 1, 0, cols, <<>>)
             IN  [referer |-> a.referer, token |-> a.token, err |-> l.err,
                  panic |-> l.panic, rows |-> l.rows, reads |-> l.reads]

decodeUsersCreation(rt, rq, ref) ==
    LET b == decodeBulk(rq, ref, 3)
    IN  IF b.panic THEN AfterReads(Fault(b.referer), b.reads)
        ELSE IF b.err # Nil THEN AfterReads(Ret(b.referer, NilReq, b.err), b.reads)
        ELSE AfterReads(Ret(b.referer,
                 [type |-> "createUsersReq", token |-> b.token,
                  Names |-> Column(b.rows, 1), Emails |-> Column(b.rows, 2),
                  Passwords |-> Column(b.rows, 3)], Nil),
                   b.reads)

\* decodeThingsCreation, decodeChannelsCreation, decodeGroupsCreation
decodeNamesCreation(name, rt, rq, ref) ==
    LET b == decodeBulk(rq, ref, 1)
    IN  IF b.panic THEN AfterReads(Fault(b.referer), b.reads)
        ELSE IF b.err # Nil THEN AfterReads(Ret(b.referer, NilReq, b.err), b.reads)
        ELSE AfterReads(Ret(b.referer,
                 [type |-> name, token |-> b.token, Names |-> Column(b.rows, 1)], Nil),
                   b.reads)

\* decodeConnect and decodeDisconnect
decodeConnection(name, rt, rq, ref) ==
    LET b == decodeBulk(rq, ref, 1)
    IN  IF b.panic THEN AfterReads(Fault(b.referer), b.reads)
        ELSE IF b.err # Nil THEN AfterReads(Ret(b.referer, NilReq, b.err), b.reads)
        ELSE AfterReads(Ret(b.referer,
                 [type |-> name, token |-> b.token,
                  ChannelIDs |-> [i \in 1..Len(b.rows) |-> rq.chanID],
                  ThingIDs |-> Column(b.rows, 1)], Nil),
                   b.reads)

decodeConnect(rt, rq, ref)    == decodeConnection("connectReq", rt, rq, ref)
decodeDisconnect(rt, rq, ref) == decodeConnection("disconnectReq", rt, rq, ref)

(***************************************************************************)
(* The decoder of each route                                               *)
(***************************************************************************)
NoAuthDecoders ==
    {"decodeLoginRequest", "decodePasswordReset", "decodeTokenRequest",
     "decodeLogoutRequest"}
MetaTagsDecoders == {"decodeUserCreation", "decodeThingCreation"}
MetaDecoders     == {"decodeChannelCreation", "decodeGroupCreation"}
BodyDecoders ==
    {"decodeUserUpdate", "decodeUserTagsUpdate", "decodeUserIdentityUpdate",
     "decodeThingUpdate", "decodeThingTagsUpdate", "decodeThingSecretUpdate",
     "decodeThingOwnerUpdate", "decodeChannelUpdate", "decodeGroupUpdate"}
FormDecoders ==
    {"decodeShareThingRequest", "decodeDisconnectThing", "decodeDisconnectChannel",
     "decodeDeletePolicyRequest", "decodePublishRequest", "decodeReadMessageRequest",
     "decodeWsConnectionRequest"}
NamesDecoders ==
    {"decodeThingsCreation", "decodeChannelsCreation", "decodeGroupsCreation"}
BulkDecoders ==
    NamesDecoders \cup {"decodeUsersCreation", "decodeConnect", "decodeDisconnect"}

\* The decoders that call getAuthorization on some path.
AuthDecoders ==
    { Routes[i].decoder : i \in 1..Len(Routes) }
        \ (NoAuthDecoders \cup {"decodeRefreshTokenRequest"})

\* The decoder d applied to request rq of route rt.
Decode(d, rt, rq, ref) ==
    CASE d \in NoAuthDecoders            -> decodeNoAuth(d, rt, rq, ref)
      [] d = "decodeRefreshTokenRequest" -> decodeRefreshTokenRequest(rt, rq, ref)
      [] d = "decodeListThingsRequest"   -> decodeListThingsRequest(rt, rq, ref)
      [] d = "decodeUserCreation"        -> decodeUserCreation(rt, rq, ref)
      [] d = "decodeThingCreation"       -> decodeMetaTagsCreation("createThingReq", rt, rq, ref)
      [] d \in MetaDecoders              -> decodeMetaCreation(d, rt, rq, ref)
      [] d = "decodeUserUpdate"          -> decodeUserUpdate(rt, rq, ref)
      [] d \in BodyDecoders \ {"decodeUserUpdate"} -> decodeBodyUpdate(d, rt, rq, ref)
      [] d \in FormDecoders              -> decodeFormThenAuth(d, rt, rq, ref)
      [] d = "decodeConnectThing"        -> decodeConnectThing(rt, rq, ref)
      [] d = "decodeConnectChannel"      -> decodeConnectChannel(rt, rq, ref)
      [] d = "decodeUpdatePolicyRequest" -> decodeUpdatePolicyRequest(rt, rq, ref)
      [] d = "decodeUsersCreation"       -> decodeUsersCreation(rt, rq, ref)
      [] d \in NamesDecoders             -> decodeNamesCreation(d, rt, rq, ref)
      [] d = "decodeConnect"             -> decodeConnect(rt, rq, ref)
      [] d = "decodeDisconnect"          -> decodeDisconnect(rt, rq, ref)
      [] OTHER                           -> decodeAuthOnly(d, rt, rq, ref)

(***************************************************************************)
(* encodeError (transport.go)                                              *)
(***************************************************************************)
\* encodeError with the malformed-data case tested before the cookie case.
encodeError_MalformedFirst(e, rw) ==
    IF Contains(e, errMalformedData) \/ Contains(e, errMalformedSubtopic)
        THEN WriteHeader(rw, StatusBadRequest)
    ELSE IF Contains(e, errNoCookie) \/ Contains(e, errUnauthorized)
        THEN WriteHeader(HeaderSet(rw, "Location", "/login"), StatusFound)
    ELSE IF Contains(e, ErrUnauthorizedAccess)
        THEN WriteHeader(rw, StatusForbidden)
    ELSE IF Contains(e, ErrAuthentication)
        THEN WriteHeader(HeaderSet(rw, "Location", "/refresh_token"), StatusSeeOther)
    ELSE IF FromErrorOk(e)
        THEN IF FromErrorCode(e) = "PermissionDenied"
                THEN WriteHeader(rw, StatusForbidden)
                ELSE WriteHeader(rw, StatusServiceUnavailable)
    ELSE WriteHeader(rw, StatusInternalServerError)

\* encodeError sending an expired authentication to /login, like a missing cookie.
encodeError_AuthToLogin(e, rw) ==
    IF Contains(e, errNoCookie) \/ Contains(e, errUnauthorized)
            \/ Contains(e, ErrAuthentication)
        THEN WriteHeader(HeaderSet(rw, "Location", "/login"), StatusFound)
    ELSE IF Contains(e, errMalformedData) \/ Contains(e, errMalformedSubtopic)
        THEN WriteHeader(rw, StatusBadRequest)
    ELSE IF Contains(e, ErrUnauthorizedAccess)
        THEN WriteHeader(rw, StatusForbidden)
    ELSE IF FromErrorOk(e)
        THEN IF FromErrorCode(e) = "PermissionDenied"
                THEN WriteHeader(rw, StatusForbidden)
                ELSE WriteHeader(rw, StatusServiceUnavailable)
    ELSE WriteHeader(rw, StatusInternalServerError)

\* encodeError without the malformed-subtopic alternative of the 400 case.
encodeError_NoSubtopic(e, rw) ==
    IF Contains(e, errNoCookie) \/ Contains(e, errUnauthorized)
        THEN WriteHeader(HeaderSet(rw, "Location", "/login"), StatusFound)
    ELSE IF Contains(e, errMalformedData)
        THEN WriteHeader(rw, StatusBadRequest)
    ELSE IF Contains(e, ErrUnauthorizedAccess)
        THEN WriteHeader(rw, StatusForbidden)
    ELSE IF Contains(e, ErrAuthentication)
        THEN WriteHeader(HeaderSet(rw, "Location", "/refresh_token"), StatusSeeOther)
    ELSE IF FromErrorOk(e)
        THEN IF FromErrorCode(e) = "PermissionDenied"
                THEN WriteHeader(rw, StatusForbidden)
                ELSE WriteHeader(rw, StatusServiceUnavailable)
    ELSE WriteHeader(rw, StatusInternalServerError)

\* encodeError whose gRPC branch falls through to 500 for codes other than
\* permission-denied (the inner switch without its default).
encodeError_NoRpcDefault(e, rw) ==
    IF Contains(e, errNoCookie) \/ Contains(e, errUnauthorized)
        THEN WriteHeader(HeaderSet(rw, "Location", "/login"), StatusFound)
    ELSE IF Contains(e, errMalformedData) \/ Contains(e, errMalformedSubtopic)
        THEN WriteHeader(rw, StatusBadRequest)
    ELSE IF Contains(e, ErrUnauthorizedAccess)
        THEN WriteHeader(rw, StatusForbidden)
    ELSE IF Contains(e, ErrAuthentication)
        THEN WriteHeader(HeaderSet(rw, "Location", "/refresh_token"), StatusSeeOther)
    ELSE IF FromErrorOk(e) /\ FromErrorCode(e) = "PermissionDenied"
        THEN WriteHeader(rw, StatusForbidden)
    ELSE WriteHeader(rw, StatusInternalServerError)

encodeError(e, rw) ==
    IF Contains(e, errNoCookie) \/ Contains(e, errUnauthorized)
        THEN WriteHeader(HeaderSet(rw, "Location", "/login"), StatusFound)
    ELSE IF Contains(e, errMalformedData) \/ Contains(e, errMalformedSubtopic)
        THEN WriteHeader(rw, StatusBadRequest)
    ELSE IF Contains(e, ErrUnauthorizedAccess)
        THEN WriteHeader(rw, StatusForbidden)
    ELSE IF Contains(e, ErrAuthentication)
        THEN WriteHeader(HeaderSet(rw, "Location", "/refresh_token"), StatusSeeOther)
    ELSE IF FromErrorOk(e)
        THEN IF FromErrorCode(e) = "PermissionDenied"
                THEN WriteHeader(rw, StatusForbidden)
                ELSE WriteHeader(rw, StatusServiceUnavailable)
    ELSE WriteHeader(rw, StatusInternalServerError)


(***************************************************************************)
(* encodeResponse (transport.go)                                           *)
(*                                                                         *)
(* A typed response (uiRes) is given by what its methods return: Code(),   *)
(* Headers(), Cookies(), Empty(), and its html.                            *)
(***************************************************************************)
contentType == "text/html"

\* http.SetCookie(w, cookie): one more Set-Cookie header line.
SetCookie(rw, cookie) ==
    [HeaderSet(rw, "Set-Cookie",
               IF HasHeader(rw, "Set-Cookie")
                   THEN Append(rw.header["Set-Cookie"], cookie) ELSE <<cookie>>)
        EXCEPT !.trace = Append(rw.trace, <<"SetCookie", cookie>>)]

RECURSIVE SetHeaders(_, _, _)
SetHeaders(rw, headers, keys) ==
    IF keys = {} THEN rw
    ELSE LET k == CHOOSE x \in keys : TRUE
         IN  SetHeaders(HeaderSet(rw, k, headers[k]), headers, keys \ {k})

RECURSIVE SetCookies(_, _, _)
SetCookies(rw, cookies, i) ==
    IF i > Len(cookies) THEN rw
    ELSE SetCookies(SetCookie(rw, cookies[i]), cookies, i + 1)

\* encodeResponse writing the body before the status code.
encodeResponse_BodyFirst(ar, rw) ==
    LET w1 == HeaderSet(rw, "Content-Type", contentType)
        w2 == SetHeaders(w1, ar.headers, DOMAIN ar.headers)
        w3 == SetCookies(w2, ar.cookies, 1)
        w4 == IF ar.empty THEN w3 ELSE Write(w3, ar.html)
    IN  WriteHeader(w4, ar.code)

encodeResponse(ar, rw) ==
    LET w1 == HeaderSet(rw, "Content-Type", contentType)
        w2 == SetHeaders(w1, ar.headers, DOMAIN ar.headers)
        w3 == SetCookies(w2, ar.cookies, 1)
        w4 == WriteHeader(w3, ar.code)
    IN  IF ar.empty THEN w4 ELSE Write(w4, ar.html)

(***************************************************************************)
(* Inputs of the server: the requests and what an endpoint returns         *)
(***************************************************************************)
\* The longest uploaded file, in rows.
MaxRows == 2

FileNames ==
    { <<"u", ".", "c", "s", "v">>, <<"u", ".", "t", "x", "t">>, <<"c", "s", "v">> }

\* Two rows of three fields, a row of one field, a malformed row.
RowKinds == { <<"n1", "e1", "p1">>, <<"n3", "e3", "p3">>, <<"n2">>, <<BareQuote>> }

RECURSIVE SeqsUpTo(_, _)
SeqsUpTo(S, n) ==
    IF n = 0 THEN { <<>> }
    ELSE LET shorter == SeqsUpTo(S, n - 1)
         IN  shorter \cup { Append(q, x) : q \in { t \in shorter : Len(t) = n - 1 }, x \in S }

\* The file of the bulk-import scenario: three rows, the second malformed.
ScenarioFile ==
    [name |-> <<"u", ".", "c", "s", "v">>,
     rows |-> << <<"n1", "e1", "p1">>, <<BareQuote>>, <<"n3", "e3", "p3">> >>]

Files ==
    { [name |-> n, rows |-> rows] : n \in FileNames, rows \in SeqsUpTo(RowKinds, MaxRows) }
        \cup {ScenarioFile}

FieldKinds == {"absent", "invalid", "valid"}

\* The path of a request for route pattern p: its parameter replaced.
Instance(p) == [i \in 1..Len(p) |-> IF IsParam(p[i]) THEN "id1" ELSE p[i]]

\* The requests for (method, path) that differ in what the decoder d reads.
Variants(d, method, path) ==
    LET b == BaseRequest(method, path)
        withToken == { [b EXCEPT !.token = t] : t \in {NoCookie, "tok"} }
    IN  CASE d = "decodeRefreshTokenRequest" ->
                 { [x EXCEPT !.refresh = c] : x \in withToken, c \in {NoCookie, "rt"} }
          [] d \in MetaTagsDecoders ->
                 { [x EXCEPT !.metadata = m, !.tags = t] :
                       x \in withToken, m \in FieldKinds, t \in FieldKinds }
          [] d \in MetaDecoders ->
                 { [x EXCEPT !.metadata = m] : x \in withToken, m \in FieldKinds }
          [] d \in BodyDecoders ->
                 { [x EXCEPT !.body = v] : x \in withToken, v \in {"invalid", "valid"} }
          [] d \in FormDecoders \cup {"decodeConnectThing", "decodeConnectChannel"} ->
                 { [x EXCEPT !.formOK = f] : x \in withToken, f \in BOOLEAN }
          [] d = "decodeUpdatePolicyRequest" ->
                 { [x EXCEPT !.formOK = f, !.actions = a] :
                       x \in withToken, f \in BOOLEAN, a \in FieldKinds }
          [] d \in BulkDecoders ->
                 { [x EXCEPT !.file = f] : x \in withToken, f \in Files \cup {NoFile} }
                     \cup { [x EXCEPT !.formOK = FALSE] : x \in withToken }
          [] OTHER -> withToken

\* The requests served: for every route the request of its own path, in
\* every variant its decoder distinguishes.
RoutedRequests ==
    UNION { Variants(Routes[RouteOf(Routes[i].method, Instance(Routes[i].path))].decoder,
                     Routes[i].method, Instance(Routes[i].path)) : i \in 1..Len(Routes) }

\* Requests for paths no kithttp route is registered for.
UnroutedRequests ==
    { [b EXCEPT !.token = t] :
        b \in { BaseRequest("POST", <<"things", "id1", "connectThing">>),
                BaseRequest("GET", <<"css", "style.css">>),
                BaseRequest("GET", <<"version">>),
                BaseRequest("GET", <<"metrics">>) },
        t \in {NoCookie, "tok"} }

Requests == RoutedRequests \cup UnroutedRequests

\* What an endpoint returns when it succeeds.
Responses ==
    { [code |-> 200, headers |-> [k \in {} |-> ""], cookies |-> <<>>,
       html |-> <<"<html>">>, empty |-> FALSE],
      [code |-> 303, headers |-> [k \in {"Location"} |-> "/"], cookies |-> <<"token=tok">>,
       html |-> <<>>, empty |-> TRUE],
      [code |-> 200, headers |-> [k \in {"Content-Type"} |-> "application/json"],
       cookies |-> <<>>, html |-> <<"{}">>, empty |-> FALSE] }

\* What an endpoint returns when the service fails.
EndpointErrors ==
    { Wrap(ErrFailedCreation, ErrAuthentication), ErrUnauthorizedAccess, errUnauthorized,
      StatusError("PermissionDenied"), StatusError("Unavailable"), ErrFailedCreation }

(***************************************************************************)
(* Spec: the server, one request at a time (kithttp.Server.ServeHTTP)      *)
(***************************************************************************)
Init ==
    /\ pc = "idle"
    /\ referer = <<>>
    /\ r = NoRequest
    /\ request = NilReq
    /\ called = "none"
    /\ err = Nil
    /\ w = NewWriter
    /\ response = NoResponse
    /\ reads = 0
    /\ ClientIdle

\* The mux's choice for every method and path served.
Dispatch ==
    [m \in {"GET", "POST"}, p \in { rq.path : rq \in Requests } |-> RouteOf(m, p)]

\* r.Handle("/*", fs): the route of every request no other route matches.
StaticRoute == R("*", <<"*">>, "none", "fs")

\* r.GetFunc("/version", ...) and r.Handle("/metrics", ...): the routes
\* registered after the kithttp servers and before the file server.
PlainRoutes == <<
      R("GET", <<"version">>, "none", "health"),
      R("GET", <<"metrics">>, "none", "metrics"),
      R("POST", <<"metrics">>, "none", "metrics")
>>

\* The route, among those that are not kithttp servers, of a request: the
\* wildcard comes last and matches every path.
PlainRouteOf(method, path) ==
    LET hits == { i \in 1..Len(PlainRoutes) : RouteMatches(PlainRoutes[i], method, path) }
    IN  IF hits = {} THEN StaticRoute
        ELSE PlainRoutes[CHOOSE i \in hits : \A j \in hits : i <= j]

RouteOfRequest(rq) ==
    IF Dispatch[rq.method, rq.path] = 0 THEN PlainRouteOf(rq.method, rq.path)
    ELSE Routes[Dispatch[rq.method, rq.path]]

\* mainflux.Health and promhttp.Handler answer 200 with a text.
PlainHandler(rw) == Write(WriteHeader(rw, 200), <<"<text>">>)

\* http.FileServer(http.Dir(staticDir)): the file, or 404 when the directory
\* holds no file of the request's path.
FileServer(found, rw) ==
    IF found THEN Write(WriteHeader(rw, 200), <<"<file>">>)
    ELSE WriteHeader(rw, 404)

\* A request arrives and its route's decoder runs.  A fault in the decoder
\* ends the request without a response.
ServeDecode(rq) ==
    /\ pc = "idle"
    /\ Dispatch[rq.method, rq.path] # 0
    /\ LET rt == RouteOfRequest(rq)
           d  == Decode(rt.decoder, rt, rq, referer)
       IN  /\ r' = rq
           /\ referer' = d.referer
           /\ request' = d.req
           /\ err' = d.err
           /\ reads' = d.reads
           /\ pc' = IF d.panic THEN "panicked" ELSE "decoded"
    /\ called' = "none"
    /\ w' = NewWriter
    /\ response' = NoResponse
    /\ UNCHANGED clientVars

\* A request that matches no kithttp route is answered by the version or
\* metrics handler or, last, by the file server: no decoder runs and no
\* endpoint is invoked.
ServeStatic(rq) ==
    /\ pc = "idle"
    /\ Dispatch[rq.method, rq.path] = 0
    /\ r' = rq
    /\ called' = RouteOfRequest(rq).endpoint
    /\ \E found \in BOOLEAN :
           w' = IF RouteOfRequest(rq) = StaticRoute
                    THEN FileServer(found, NewWriter) ELSE PlainHandler(NewWriter)
    /\ request' = NilReq
    /\ err' = Nil
    /\ response' = NoResponse
    /\ reads' = 0
    /\ pc' = "done"
    /\ UNCHANGED <<referer, clientVars>>

\* The decoder failed: the error encoder answers, the endpoint is not invoked.
DecodeFailed ==
    /\ pc = "decoded"
    /\ err # Nil
    /\ w' = encodeError(err, w)
    /\ pc' = "done"
    /\ UNCHANGED <<referer, r, request, called, err, response, reads, clientVars>>

\* The endpoint is invoked and returns a response, which is encoded.
EndpointOK(resp) ==
    /\ pc = "decoded"
    /\ err = Nil
    /\ called' = RouteOfRequest(r).endpoint
    /\ response' = resp
    /\ w' = encodeResponse(resp, w)
    /\ pc' = "done"
    /\ UNCHANGED <<referer, r, request, err, reads, clientVars>>

\* The endpoint is invoked and returns an error, which the error encoder answers.
EndpointFailed(e) ==
    /\ pc = "decoded"
    /\ err = Nil
    /\ called' = RouteOfRequest(r).endpoint
    /\ err' = e
    /\ w' = encodeError(e, w)
    /\ pc' = "done"
    /\ UNCHANGED <<referer, r, request, response, reads, clientVars>>

\* ServeHTTP returns (or the connection of a faulted request is closed):
\* nothing of the request is kept but the package variable referer.
Finish ==
    /\ pc \in {"done", "panicked"}
    /\ pc' = "idle"
    /\ r' = NoRequest
    /\ request' = NilReq
    /\ called' = "none"
    /\ err' = Nil
    /\ w' = NewWriter
    /\ response' = NoResponse
    /\ reads' = 0
    /\ UNCHANGED <<referer, clientVars>>

Next ==
    \/ \E rq \in Requests : ServeDecode(rq)
    \/ \E rq \in Requests : ServeStatic(rq)
    \/ DecodeFailed
    \/ Finish
    \/ \E resp \in Responses : EndpointOK(resp)
    \/ \E e \in EndpointErrors : EndpointFailed(e)

Spec == Init /\ [][Next]_vars


(***************************************************************************)
(* The API client: mfSDK.processRequest                                    *)
(*                                                                         *)
(* Texts the client inspects (tokens, header values) are sequences of      *)
(* characters.                                                             *)
(***************************************************************************)
BearerPrefix == <<"B", "e", "a", "r", "e", "r", " ">>
ThingPrefix  == <<"T", "h", "i", "n", "g", " ">>
CTJSON       == "application/json"
CTJSONSenML  == "application/senml+json"

\* strings.HasPrefix(s, prefix)
HasPrefix(str, prefix) ==
    /\ Len(str) >= Len(prefix)
    /\ SubSeq(str, 1, Len(prefix)) = prefix

\* strings.Contains(s, substr)
StrContains(str, sub) ==
    \E i \in 0..(Len(str) - Len(sub)) : SubSeq(str, i + 1, i + Len(sub)) = sub

\* http.Header.Add(key, value): one more value under key.
HeaderAdd(h, k, v) ==
    [x \in DOMAIN h \cup {k} |->
        IF x = k THEN (IF k \in DOMAIN h THEN Append(h[k], v) ELSE <<v>>) ELSE h[x]]

\* http.Header.Set(key, value): value replaces what is under key.
HeaderReplace(h, k, v) ==
    [x \in DOMAIN h \cup {k} |-> IF x = k THEN <<v>> ELSE h[x]]

RECURSIVE AddHeaders(_, _, _)
AddHeaders(h, headers, keys) ==
    IF keys = {} THEN h
    ELSE LET k == CHOOSE x \in keys : TRUE
         IN  AddHeaders(HeaderAdd(h, k, headers[k]), headers, keys \ {k})

\* The Authorization value with the thing marker looked for at the start of
\* the token only.
AuthorizationValue_Prefix(token) ==
    IF ~HasPrefix(token, ThingPrefix) THEN BearerPrefix \o token ELSE token

\* The Authorization value with every token wrapped.
AuthorizationValue_AlwaysBearer(token) == BearerPrefix \o token

\* The value processRequest gives the Authorization header for a non-empty
\* token.
AuthorizationValue(token) ==
    IF ~StrContains(token, ThingPrefix) THEN BearerPrefix \o token ELSE token

\* processRequest up to the call of the HTTP client: the request with its
\* Content-Type, the headers passed, and the Authorization header.
BuildRequest(a) ==
    LET h0 == HeaderAdd([k \in {} |-> <<>>], "Content-Type", CTJSON)
        h1 == AddHeaders(h0, a.headers, DOMAIN a.headers)
        h2 == IF a.token # <<>>
                  THEN HeaderReplace(h1, "Authorization", AuthorizationValue(a.token))
                  ELSE h1
    IN  [built |-> TRUE, method |-> a.method, url |-> a.url, header |-> h2]

\* errors.NewSDKError(err): status 0; errors.CheckError: the response's status.
SDKError(m, status) == [kind |-> "custom", msgs |-> <<m>>, code |-> "none", status |-> status]

\* errors.CheckError accepting every status.
CheckError_AnyStatus(resp, expected) == Nil

\* errors.CheckError(resp, expected...): nil exactly when the status is expected.
CheckError(resp, expected) ==
    IF resp.status \in expected THEN Nil
    ELSE SDKError("backend error", resp.status)

NoHeader == [k \in {} |-> <<>>]

Returned(header, body, e) == [returned |-> TRUE, header |-> header, body |-> body, err |-> e]

(***************************************************************************)
(* SpecSDK: one call of processRequest for each argument of the domain     *)
(***************************************************************************)
\* Tokens: a text before, a marker (or nothing, or nearly the marker), and
\* a text after.
TokenParts == { <<>>, ThingPrefix, <<"T", "h", "i", "n", "g">>, BearerPrefix }

Tokens ==
    { pre \o mid \o post :
        pre \in { <<>>, <<"x">> }, mid \in TokenParts, post \in { <<>>, <<"k">> } }

HeaderArgs ==
    { [k \in {} |-> ""],
      [k \in {"Content-Type"} |-> CTJSONSenML],
      [k \in {"X-Request-Id"} |-> "1"] }


\* The status codes a caller expects: http.StatusOK, or that and http.StatusCreated.
ExpectedSets == { {200}, {200, 201} }

\* What the HTTP client returns: a transport error, or a response whose body
\* can be read or not.
BackendReplies ==
    { [fail |-> TRUE, status |-> 0, header |-> NoHeader, body |-> <<>>, readOK |-> FALSE] }
    \cup { [fail |-> FALSE, status |-> st, header |-> [k \in {"Content-Type"} |-> <<CTJSON>>],
            body |-> <<"{}">>, readOK |-> ok] :
              st \in {200, 201, StatusBadRequest, StatusInternalServerError},
              ok \in BOOLEAN }

ProcessRequestArgs ==
    { [call |-> "processRequest", method |-> m, url |-> "http://backend/things",
       token |-> t, headers |-> h, expected |-> x] :
          m \in {"GET", "BAD METHOD"}, t \in Tokens, h \in HeaderArgs, x \in ExpectedSets }

ServerIdle ==
    /\ referer = <<>>
    /\ r = NoRequest
    /\ request = NilReq
    /\ called = "none"
    /\ err = Nil
    /\ w = NewWriter
    /\ response = NoResponse
    /\ reads = 0

InitSDK ==
    /\ pc = "processRequest"
    /\ args \in ProcessRequestArgs
    /\ httpReq = NoHTTP
    /\ sent = 0
    /\ httpResp = NoReply
    /\ out = NoOut
    /\ errs = <<>>
    /\ signals = 0
    /\ operand = <<>>
    /\ ServerIdle

\* http.NewRequest fails (an invalid method): processRequest returns at once.
NewRequestFails ==
    /\ pc = "processRequest"
    /\ args.method = "BAD METHOD"
    /\ out' = Returned(NoHeader, <<>>, SDKError("net/http: invalid method", 0))
    /\ pc' = "returned"
    /\ UNCHANGED <<args, httpReq, sent, httpResp, serverVars, mainVars>>

\* The request is built and its headers are set.
NewRequest ==
    /\ pc = "processRequest"
    /\ args.method # "BAD METHOD"
    /\ httpReq' = BuildRequest(args)
    /\ pc' = "do"
    /\ UNCHANGED <<args, sent, httpResp, out, serverVars, mainVars>>

\* Do sending the request again after a transport failure.
Do_Retry(reply) ==
    /\ pc = "do"
    /\ sent' = sent + 1
    /\ httpResp' = [received |-> TRUE, reply |-> reply]
    /\ IF reply.fail /\ sent = 0
          THEN /\ out' = out
               /\ pc' = "do"
          ELSE /\ out' = IF reply.fail
                            THEN Returned(NoHeader, <<>>, SDKError("transport error", 0))
                         ELSE IF CheckError(reply, args.expected) # Nil
                            THEN Returned(NoHeader, <<>>, CheckError(reply, args.expected))
                         ELSE IF ~reply.readOK
                            THEN Returned(NoHeader, <<>>, SDKError("read error", 0))
                         ELSE Returned(reply.header, reply.body, Nil)
               /\ pc' = "returned"
    /\ UNCHANGED <<args, httpReq, serverVars, mainVars>>

\* sdk.client.Do(req) and what follows it.
Do(reply) ==
    /\ pc = "do"
    /\ sent' = sent + 1
    /\ httpResp' = [received |-> TRUE, reply |-> reply]
    /\ out' = IF reply.fail
                 THEN Returned(NoHeader, <<>>, SDKError("transport error", 0))
              ELSE IF CheckError(reply, args.expected) # Nil
                 THEN Returned(NoHeader, <<>>, CheckError(reply, args.expected))
              ELSE IF ~reply.readOK
                 THEN Returned(NoHeader, <<>>, SDKError("read error", 0))
              ELSE Returned(reply.header, reply.body, Nil)
    /\ pc' = "returned"
    /\ UNCHANGED <<args, httpReq, serverVars, mainVars>>

NextSDK ==
    \/ NewRequestFails
    \/ NewRequest
    \/ \E reply \in BackendReplies : Do(reply)

SpecSDK == InitSDK /\ [][NextSDK]_vars


(***************************************************************************)
(* The API client: PageMetadata.query                                      *)
(***************************************************************************)
\* The fields of PageMetadata, in the order of the struct.
PMFields ==
    << "Total", "Offset", "Limit", "Level", "Email", "Name", "Type", "Metadata",
       "Status", "Action", "Subject", "Object", "Permission", "Tag", "Owner",
       "SharedBy", "Visibility", "OwnerID", "Topic", "Contact", "State" >>

FieldSet == { PMFields[i] : i \in 1..Len(PMFields) }

UintFields == {"Total", "Offset", "Limit", "Level"}

\* A Metadata value: the nil map, or a map given by its entries in the order
\* json.Marshal writes them; marshalable is FALSE for a map holding a value
\* json.Marshal rejects.
NilMetadata == [isNil |-> TRUE, entries |-> <<>>, marshalable |-> TRUE]
Metadata(entries, ok) == [isNil |-> FALSE, entries |-> entries, marshalable |-> ok]

\* The zero value of a field.
Zero(f) ==
    IF f \in UintFields THEN 0
    ELSE IF f = "Metadata" THEN NilMetadata
    ELSE <<>>

\* The json tag of a field: the name a query parameter for it would carry.
JsonName(f) ==
    CASE f = "Total" -> "total"       [] f = "Offset" -> "offset"
      [] f = "Limit" -> "limit"       [] f = "Level" -> "level"
      [] f = "Email" -> "email"       [] f = "Name" -> "name"
      [] f = "Type" -> "type"         [] f = "Metadata" -> "metadata"
      [] f = "Status" -> "status"     [] f = "Action" -> "action"
      [] f = "Subject" -> "subject"   [] f = "Object" -> "object"
      [] f = "Permission" -> "permission"
      [] f = "Tag" -> "tag"           [] f = "Owner" -> "owner"
      [] f = "SharedBy" -> "shared_by"
      [] f = "Visibility" -> "visibility"
      [] f = "OwnerID" -> "owner_id"  [] f = "Topic" -> "topic"
      [] f = "Contact" -> "contact"   [] f = "State" -> "state"

\* strconv.FormatUint(n, 10)
Digit(d) == <<"0", "1", "2", "3", "4", "5", "6", "7", "8", "9">>[d + 1]

RECURSIVE FormatUint(_)
FormatUint(n) == IF n < 10 THEN <<Digit(n)>> ELSE FormatUint(n \div 10) \o <<Digit(n % 10)>>

\* json.Marshal of a map of texts: {"k":"v",...}
RECURSIVE MarshalEntries(_, _)
MarshalEntries(entries, i) ==
    IF i > Len(entries) THEN <<>>
    ELSE (IF i > 1 THEN <<",">> ELSE <<>>)
         \o <<"\"">> \o entries[i][1] \o <<"\"", ":", "\"">> \o entries[i][2] \o <<"\"">>
         \o MarshalEntries(entries, i + 1)

Marshal(md) == <<"{">> \o MarshalEntries(md.entries, 1) \o <<"}">>

\* url.QueryEscape, character by character.
EscapeChar(c) ==
    CASE c = " "  -> <<"+">>
      [] c = "{"  -> <<"%", "7", "B">>
      [] c = "}"  -> <<"%", "7", "D">>
      [] c = "\"" -> <<"%", "2", "2">>
      [] c = ":"  -> <<"%", "3", "A">>
      [] c = ","  -> <<"%", "2", "C">>
      [] c = "&"  -> <<"%", "2", "6">>
      [] c = "="  -> <<"%", "3", "D">>
      [] OTHER    -> <<c>>

RECURSIVE QueryEscape(_)
QueryEscape(str) ==
    IF str = <<>> THEN <<>> ELSE EscapeChar(Head(str)) \o QueryEscape(Tail(str))

\* url.Values.Add(key, value)
ValuesAdd(q, k, v) == HeaderAdd(q, k, v)

\* The keys url.Values.Encode can meet, in the order sort.Strings gives them.
SortedKeys ==
    << "action", "contact", "email", "level", "limit", "metadata", "name", "object",
       "offset", "owner", "owner_id", "permission", "shared_by", "state", "status",
       "subject", "tag", "topic", "total", "type", "visibility" >>

\* url.Values.Encode(): "key=value" for every value of every key, the keys
\* sorted, joined by "&".  A key is one element of the text (its characters
\* need no escape), a value its escaped characters.
RECURSIVE EncodeValues(_, _, _)
EncodeValues(k, vs, i) ==
    IF i > Len(vs) THEN <<>>
    ELSE <<"&", k, "=">> \o QueryEscape(vs[i]) \o EncodeValues(k, vs, i + 1)

RECURSIVE EncodeFrom(_, _)
EncodeFrom(q, i) ==
    IF i > Len(SortedKeys) THEN <<>>
    ELSE (IF SortedKeys[i] \in DOMAIN q
             THEN EncodeValues(SortedKeys[i], q[SortedKeys[i]], 1) ELSE <<>>)
         \o EncodeFrom(q, i + 1)

\* url.Values.Encode() with the keys whose value is one character long
\* written before the others.
Encode_ShortFirst(q) ==
    LET short == [k \in { x \in DOMAIN q : Len(q[x][1]) = 1 } |-> q[k]]
        long  == [k \in { x \in DOMAIN q : Len(q[x][1]) # 1 } |-> q[k]]
        t     == EncodeFrom(short, 1) \o EncodeFrom(long, 1)
    IN  IF t = <<>> THEN <<>> ELSE Tail(t)

Encode(q) == LET t == EncodeFrom(q, 1) IN IF t = <<>> THEN <<>> ELSE Tail(t)

AddUint(q, k, n) == IF n # 0 THEN ValuesAdd(q, k, FormatUint(n)) ELSE q
AddText(q, k, t) == IF t # <<>> THEN ValuesAdd(q, k, t) ELSE q

\* The values query() adds up to the metadata, in the order of its statements.
QueryHead(pm) ==
    LET q1 == AddUint([k \in {} |-> <<>>], "offset", pm["Offset"])
        q2 == AddUint(q1, "limit", pm["Limit"])
        q3 == AddUint(q2, "total", pm["Total"])
        q4 == AddUint(q3, "level", pm["Level"])
        q5 == AddText(q4, "email", pm["Email"])
        q6 == AddText(q5, "name", pm["Name"])
        q7 == AddText(q6, "type", pm["Type"])
        q8 == AddText(q7, "visibility", pm["Visibility"])
    IN  AddText(q8, "status", pm["Status"])

\* The values query() adds after the metadata.
QueryTail(q, pm) ==
    LET q1 == AddText(q, "action", pm["Action"])
        q2 == AddText(q1, "subject", pm["Subject"])
        q3 == AddText(q2, "object", pm["Object"])
        q4 == AddText(q3, "tag", pm["Tag"])
        q5 == AddText(q4, "owner", pm["Owner"])
        q6 == AddText(q5, "shared_by", pm["SharedBy"])
        q7 == AddText(q6, "topic", pm["Topic"])
        q8 == AddText(q7, "contact", pm["Contact"])
    IN  AddText(q8, "state", pm["State"])

\* PageMetadata.query: the encoded query, or the error of json.Marshal.
query(pm) ==
    LET h == QueryHead(pm)
    IN  IF pm["Metadata"].isNil
            THEN [text |-> Encode(QueryTail(h, pm)), err |-> Nil]
        ELSE IF ~pm["Metadata"].marshalable
            THEN [text |-> <<>>, err |-> SDKError("json: unsupported type", 0)]
        ELSE [text |-> Encode(QueryTail(ValuesAdd(h, "metadata", Marshal(pm["Metadata"])), pm)),
              err |-> Nil]

(***************************************************************************)
(* SpecQuery: PageMetadata.query for each value of the domain              *)
(***************************************************************************)
\* How many fields of a PageMetadata differ from their zero value.
MaxFields == 2

FieldValues(f) ==
    IF f \in UintFields THEN {7, 10}
    ELSE IF f = "Metadata"
        THEN { Metadata(<<>>, TRUE), Metadata(<< <<<<"k">>, <<"v">>>> >>, TRUE),
               Metadata(<<>>, FALSE) }
    ELSE { <<"a">>, <<"b", "&", "c">> }

DefaultPM == [f \in FieldSet |-> Zero(f)]

RECURSIVE PMsUpTo(_)
PMsUpTo(n) ==
    IF n = 0 THEN {DefaultPM}
    ELSE LET prev == PMsUpTo(n - 1)
         IN  prev \cup UNION { { [pm EXCEPT ![f] = v] : v \in FieldValues(f), pm \in prev } :
                                 f \in FieldSet }

PageMetadatas == PMsUpTo(MaxFields)

InitQuery ==
    /\ pc = "query"
    /\ args \in { [call |-> "query", pm |-> pm] : pm \in PageMetadatas }
    /\ httpReq = NoHTTP
    /\ sent = 0
    /\ httpResp = NoReply
    /\ out = NoOut
    /\ errs = <<>>
    /\ signals = 0
    /\ operand = <<>>
    /\ ServerIdle

Query ==
    /\ pc = "query"
    /\ out' = [returned |-> TRUE, text |-> query(args.pm).text, err |-> query(args.pm).err]
    /\ pc' = "returned"
    /\ UNCHANGED <<args, httpReq, sent, httpResp, serverVars, mainVars>>

NextQuery == Query

SpecQuery == InitQuery /\ [][NextQuery]_vars

(***************************************************************************)
(* SpecErr: encodeError applied to each error of the domain                *)
(***************************************************************************)
InitErr ==
    /\ pc = "encodeError"
    /\ err \in Errors
    /\ w = NewWriter
    /\ referer = <<>>
    /\ r = NoRequest
    /\ request = NilReq
    /\ called = "none"
    /\ response = NoResponse
    /\ reads = 0
    /\ ClientIdle

EncodeErrorCall ==
    /\ pc = "encodeError"
    /\ w' = encodeError(err, w)
    /\ pc' = "encoded"
    /\ UNCHANGED <<referer, r, request, called, err, response, reads, clientVars>>

NextErr == EncodeErrorCall

SpecErr == InitErr /\ [][NextErr]_vars

(***************************************************************************)
(* SpecRace: two requests served concurrently                              *)
(*                                                                         *)
(* net/http serves every request in a goroutine of its own, and referer is *)
(* read and written without synchronisation.  A string variable is two     *)
(* words, its data pointer and its length, stored and loaded one at a      *)
(* time: a load that overlaps a store can see the words of two different   *)
(* strings.  Under SpecRace pc, r, request and err hold one value for each *)
(* goroutine, and referer holds the two words.                             *)
(***************************************************************************)
Handlers == {"g1", "g2"}
Clients  == {"A", "B"}

\* The words of the string variable that holds str.
StringWords(str) == [data |-> str, len |-> str]

\* What a load of the two words gives: the string, or the mix of two.
TornString == <<"<torn>">>
StringOf(words) == IF words.data = words.len THEN words.data ELSE TornString

\* The requests of a client: two pages that extract the token, and the
\* refresh of the token.
RaceRequests ==
    { [client |-> c, rq |-> [BaseRequest("GET", p) EXCEPT !.token = "tok", !.refresh = "rt"]] :
        c \in Clients, p \in { <<"things">>, <<"channels">>, <<"refresh_token">> } }

DecoderOf(q) == RouteOfRequest(q.rq).decoder

InitRace ==
    /\ pc = [h \in Handlers |-> "idle"]
    /\ referer = StringWords(<<>>)
    /\ r = [h \in Handlers |-> NoRequest]
    /\ request = [h \in Handlers |-> NilReq]
    /\ err = [h \in Handlers |-> Nil]
    /\ called = "none"
    /\ w = NewWriter
    /\ response = NoResponse
    /\ reads = 0
    /\ ClientIdle

\* The server hands a request to goroutine h.
Accept(h, q) ==
    /\ pc[h] = "idle"
    /\ r' = [r EXCEPT ![h] = q]
    /\ pc' = [pc EXCEPT ![h] = "accepted"]
    /\ UNCHANGED <<referer, request, err, called, w, response, reads, clientVars>>

\* getAuthorization, "referer = r.URL.String()": the first word is stored.
StoreData(h) ==
    /\ pc[h] = "accepted"
    /\ DecoderOf(r[h]) \in AuthDecoders
    /\ referer' = [referer EXCEPT !.data = getAuthorization(r[h].rq, referer.data).referer]
    /\ pc' = [pc EXCEPT ![h] = "storing"]
    /\ UNCHANGED <<r, request, err, called, w, response, reads, clientVars>>

\* The second word is stored, and the decoder runs to its end.
StoreLen(h) ==
    /\ pc[h] = "storing"
    /\ LET rt == RouteOfRequest(r[h].rq)
           d  == Decode(rt.decoder, rt, r[h].rq, referer.len)
       IN  /\ referer' = [referer EXCEPT !.len = d.referer]
           /\ request' = [request EXCEPT ![h] = d.req]
           /\ err' = [err EXCEPT ![h] = d.err]
    /\ pc' = [pc EXCEPT ![h] = "decoded"]
    /\ UNCHANGED <<r, called, w, response, reads, clientVars>>

\* decodeRefreshTokenRequest, "ref: referer": the first word is loaded.
LoadData(h) ==
    /\ pc[h] = "accepted"
    /\ DecoderOf(r[h]) = "decodeRefreshTokenRequest"
    /\ request' = [request EXCEPT ![h] = [type |-> "loading", data |-> referer.data]]
    /\ pc' = [pc EXCEPT ![h] = "loading"]
    /\ UNCHANGED <<referer, r, err, called, w, response, reads, clientVars>>

\* The second word is loaded, and the decoder returns its request.
LoadLen(h) ==
    /\ pc[h] = "loading"
    /\ LET rt == RouteOfRequest(r[h].rq)
           d  == decodeRefreshTokenRequest(rt, r[h].rq,
                     StringOf([data |-> request[h].data, len |-> referer.len]))
       IN  /\ request' = [request EXCEPT ![h] = d.req]
           /\ err' = [err EXCEPT ![h] = d.err]
    /\ pc' = [pc EXCEPT ![h] = "decoded"]
    /\ UNCHANGED <<referer, r, called, w, response, reads, clientVars>>

\* The request of goroutine h has been answered.
Return(h) ==
    /\ pc[h] = "decoded"
    /\ pc' = [pc EXCEPT ![h] = "idle"]
    /\ r' = [r EXCEPT ![h] = NoRequest]
    /\ request' = [request EXCEPT ![h] = NilReq]
    /\ err' = [err EXCEPT ![h] = Nil]
    /\ UNCHANGED <<referer, called, w, response, reads, clientVars>>

NextRace ==
    \/ \E h \in Handlers, q \in RaceRequests : Accept(h, q)
    \/ \E h \in Handlers : StoreData(h)
    \/ \E h \in Handlers : StoreLen(h)
    \/ \E h \in Handlers : LoadData(h)
    \/ \E h \in Handlers : LoadLen(h)
    \/ \E h \in Handlers : Return(h)

SpecRace == InitRace /\ [][NextRace]_vars

(***************************************************************************)
(* SpecMain: main (main.go) from the creation of errs to the end           *)
(*                                                                         *)
(* main starts the goroutine of the HTTP server and the goroutine that     *)
(* waits for SIGINT, and receives once from errs.  pc holds the position   *)
(* of main and of the two goroutines; a process that has ended takes no    *)
(* step.                                                                   *)
(***************************************************************************)
\* errs := make(chan error, 2) and c := make(chan os.Signal, 2)
ErrsCap   == 2
SignalCap == 2

Senders == {"server", "sigint"}

\* What http.ListenAndServe returns: it returns only with an error.
ListenErrors ==
    { Plain("listen tcp: bind: address already in use"), Plain("http: Server closed") }

\* fmt.Errorf("%s", <-c) for SIGINT
Interrupt == Plain("interrupt")

Running == pc["main"] \in {"receive", "log", "close"}

handlerVars == <<referer, r, request, called, w, response, reads,
                 args, httpReq, sent, httpResp, out>>

InitMain ==
    /\ pc = [g \in Senders \cup {"main"} |-> IF g = "main" THEN "receive" ELSE "start"]
    /\ errs = <<>>
    /\ signals = 0
    /\ operand = [g \in Senders |-> Nil]
    /\ args = NoArgs
    /\ httpReq = NoHTTP
    /\ sent = 0
    /\ httpResp = NoReply
    /\ out = NoOut
    /\ ServerIdle

\* The server goroutine logs the start and calls http.ListenAndServe.
Listen ==
    /\ Running
    /\ pc["server"] = "start"
    /\ pc' = [pc EXCEPT !["server"] = "listening"]
    /\ UNCHANGED <<err, errs, signals, operand, handlerVars>>

\* http.ListenAndServe returns e: the operand of the send is evaluated.
ListenReturns(e) ==
    /\ Running
    /\ pc["server"] = "listening"
    /\ operand' = [operand EXCEPT !["server"] = e]
    /\ pc' = [pc EXCEPT !["server"] = "sending"]
    /\ UNCHANGED <<err, errs, signals, handlerVars>>

\* signal.Notify(c, syscall.SIGINT)
Notify ==
    /\ Running
    /\ pc["sigint"] = "start"
    /\ pc' = [pc EXCEPT !["sigint"] = "waiting"]
    /\ UNCHANGED <<err, errs, signals, operand, handlerVars>>

\* SIGINT is delivered: before signal.Notify it ends the process; after it
\* the signal is put in c, or dropped when c is full.
Signal ==
    /\ Running
    /\ IF pc["sigint"] = "start"
          THEN /\ pc' = [pc EXCEPT !["main"] = "killed"]
               /\ signals' = signals
          ELSE /\ signals < SignalCap
               /\ signals' = signals + 1
               /\ pc' = pc
    /\ UNCHANGED <<err, errs, operand, handlerVars>>

\* <-c: the signal goroutine takes a signal; the operand of its send is
\* evaluated.
TakeSignal ==
    /\ Running
    /\ pc["sigint"] = "waiting"
    /\ signals > 0
    /\ signals' = signals - 1
    /\ operand' = [operand EXCEPT !["sigint"] = Interrupt]
    /\ pc' = [pc EXCEPT !["sigint"] = "sending"]
    /\ UNCHANGED <<err, errs, handlerVars>>

\* Send doing its send twice.
Send_Twice(g) ==
    /\ Running
    /\ pc[g] = "sending"
    /\ errs' = errs \o <<operand[g], operand[g]>>
    /\ pc' = [pc EXCEPT ![g] = "returned"]
    /\ UNCHANGED <<err, signals, operand, handlerVars>>

\* errs <- operand: goroutine g sends, which needs room in errs, and its
\* function returns.
Send(g) ==
    /\ Running
    /\ pc[g] = "sending"
    /\ Len(errs) < ErrsCap
    /\ errs' = Append(errs, operand[g])
    /\ pc' = [pc EXCEPT ![g] = "returned"]
    /\ UNCHANGED <<err, signals, operand, handlerVars>>

\* err = <-errs
Receive ==
    /\ pc["main"] = "receive"
    /\ errs # <<>>
    /\ err' = Head(errs)
    /\ errs' = Tail(errs)
    /\ pc' = [pc EXCEPT !["main"] = "log"]
    /\ UNCHANGED <<signals, operand, handlerVars>>

\* logger.Error(...)
LogError ==
    /\ pc["main"] = "log"
    /\ pc' = [pc EXCEPT !["main"] = "close"]
    /\ UNCHANGED <<err, errs, signals, operand, handlerVars>>

\* main returns: the deferred closer.Close() runs and the process ends.
Exit ==
    /\ pc["main"] = "close"
    /\ pc' = [pc EXCEPT !["main"] = "exited"]
    /\ UNCHANGED <<err, errs, signals, operand, handlerVars>>

NextMain ==
    \/ Listen
    \/ \E e \in ListenErrors : ListenReturns(e)
    \/ Notify
    \/ Signal
    \/ TakeSignal
    \/ \E g \in Senders : Send(g)
    \/ Receive
    \/ LogError
    \/ Exit

SpecMain == InitMain /\ [][NextMain]_vars

(***************************************************************************)
(* Properties of encodeError (checked under SpecErr)                       *)
(***************************************************************************)
Encoded == pc = "encoded"

RedirectsTo(rw, code, loc) ==
    /\ rw.status = code
    /\ HasHeader(rw, "Location")
    /\ rw.header["Location"] = loc

IsLoginKind(e)     == Contains(e, errNoCookie) \/ Contains(e, errUnauthorized)
IsMalformedKind(e) == Contains(e, errMalformedData) \/ Contains(e, errMalformedSubtopic)
IsNamedKind(e) ==
    \/ IsLoginKind(e)
    \/ IsMalformedKind(e)
    \/ Contains(e, ErrUnauthorizedAccess)
    \/ Contains(e, ErrAuthentication)

\* C3: every error that contains the no-cookie error or the login-failure
\* error is answered with status 302 and Location /login.
C3_LoginRedirect ==
    (Encoded /\ IsLoginKind(err)) => RedirectsTo(w, StatusFound, "/login")

\* An error that is also of a later kind (malformed data wrapped around a
\* login failure) has been answered with the redirect to /login.
C3_Witness ==
    /\ Encoded
    /\ err = Wrap(errMalformedData, errUnauthorized)
    /\ RedirectsTo(w, StatusFound, "/login")

\* C4, as stated: an error containing ErrAuthentication is answered with
\* status 303 and Location /refresh_token.
C4_AsStated ==
    (Encoded /\ Contains(err, ErrAuthentication))
        => RedirectsTo(w, StatusSeeOther, "/refresh_token")

\* C4, amended: an error containing ErrAuthentication and none of the kinds
\* tested before it (no-cookie, login failure, malformed data, malformed
\* subtopic, unauthorized access) is answered with status 303 and Location
\* /refresh_token.
C4_AuthenticationRedirect ==
    (/\ Encoded
     /\ Contains(err, ErrAuthentication)
     /\ ~IsLoginKind(err)
     /\ ~IsMalformedKind(err)
     /\ ~Contains(err, ErrUnauthorizedAccess))
        => RedirectsTo(w, StatusSeeOther, "/refresh_token")

\* ErrAuthentication under a wrapper of no named kind has been answered with
\* the redirect to /refresh_token.
C4_Witness ==
    /\ Encoded
    /\ err = Wrap(ErrFailedCreation, ErrAuthentication)
    /\ RedirectsTo(w, StatusSeeOther, "/refresh_token")

\* C5, as stated: an error containing the malformed-data or malformed-subtopic
\* error is answered with 400, one containing the unauthorized-access error
\* with 403, in both cases without a Location header.
C5_AsStated ==
    /\ (Encoded /\ IsMalformedKind(err))
            => (w.status = StatusBadRequest /\ ~HasHeader(w, "Location"))
    /\ (Encoded /\ Contains(err, ErrUnauthorizedAccess))
            => (w.status = StatusForbidden /\ ~HasHeader(w, "Location"))

\* C5, amended: an error containing the malformed-data or malformed-subtopic
\* error and neither the no-cookie nor the login-failure error is answered
\* with 400; an error containing the unauthorized-access error and none of
\* those four is answered with 403; in both cases without a Location header.
C5_MalformedAndForbidden ==
    /\ (Encoded /\ IsMalformedKind(err) /\ ~IsLoginKind(err))
            => (w.status = StatusBadRequest /\ ~HasHeader(w, "Location"))
    /\ (/\ Encoded
        /\ Contains(err, ErrUnauthorizedAccess)
        /\ ~IsLoginKind(err)
        /\ ~IsMalformedKind(err))
            => (w.status = StatusForbidden /\ ~HasHeader(w, "Location"))

\* A malformed-subtopic error that wraps an unauthorized-access error has
\* been answered with 400 and no Location header.
C5_Witness ==
    /\ Encoded
    /\ err = Wrap(errMalformedSubtopic, ErrUnauthorizedAccess)
    /\ w.status = StatusBadRequest
    /\ ~HasHeader(w, "Location")

\* C6: for an error of none of the named kinds, the status is 403 when the
\* error carries a gRPC status with code permission-denied, 503 when it
\* carries a gRPC status with any other code, and 500 exactly when it
\* carries no gRPC status (uncategorized); 500 is written for no other error.
C6_RpcAndDefault ==
    /\ (Encoded /\ ~IsNamedKind(err) /\ FromErrorOk(err))
            => IF FromErrorCode(err) = "PermissionDenied"
                  THEN w.status = StatusForbidden
                  ELSE w.status = StatusServiceUnavailable
    /\ (Encoded /\ ~IsNamedKind(err) /\ ~FromErrorOk(err))
            => w.status = StatusInternalServerError
    /\ (Encoded /\ w.status = StatusInternalServerError)
            => (~IsNamedKind(err) /\ ~FromErrorOk(err))

\* A gRPC status error with a code other than permission-denied has been
\* answered with 503.
C6_Witness ==
    /\ Encoded
    /\ err = StatusError("Unavailable")
    /\ w.status = StatusServiceUnavailable

(***************************************************************************)
(* Properties of the server (checked under Spec)                           *)
(***************************************************************************)
Serving  == r # NoRequest
Answered == pc = "done"

\* The decoder of the request being served performs auth extraction.
TokenRequired == Serving /\ RouteOfRequest(r).decoder \in AuthDecoders

\* C1, as stated: on every route whose decoder performs auth extraction, a
\* request without the cookie "token" is answered with the redirect to
\* /login and never with 500, whatever else it contains.
C1_AsStated ==
    (Answered /\ TokenRequired /\ r.token = NoCookie)
        => (RedirectsTo(w, StatusFound, "/login") /\ w.status # StatusInternalServerError)

\* C2: GET /things without the cookie "token": the decoder (that of the
\* list-things route) fails with the no-cookie error and no request value,
\* the endpoint is not invoked, and the answer is 302 with Location /login.
C2_ListThingsNoCookie ==
    (/\ Serving
     /\ pc \in {"decoded", "done"}
     /\ r.method = "GET"
     /\ r.path = <<"things">>
     /\ r.token = NoCookie)
        => /\ RouteOfRequest(r).decoder = "decodeListThingsRequest"
           /\ Contains(err, errNoCookie)
           /\ request = NilReq
           /\ called = "none"
           /\ Answered => RedirectsTo(w, StatusFound, "/login")

\* GET /things without the cookie has been answered.
C2_Witness ==
    /\ Answered
    /\ r.method = "GET"
    /\ r.path = <<"things">>
    /\ r.token = NoCookie
    /\ called = "none"
    /\ w.status = StatusFound

\* C7, as stated: a request whose decoder failed is answered with the
\* redirect to /login when the cookie is missing and with 400 otherwise,
\* never with 500.
C7_AsStated ==
    (Answered /\ called = "none")
        => /\ w.status # StatusInternalServerError
           /\ IF Contains(err, errNoCookie)
                 THEN RedirectsTo(w, StatusFound, "/login")
                 ELSE w.status = StatusBadRequest

(***************************************************************************)
(* Properties of processRequest (checked under SpecSDK)                    *)
(***************************************************************************)
Built == httpReq # NoHTTP

\* C8: a token containing the marker "Thing " is the Authorization value
\* unchanged; any other non-empty token is sent as "Bearer " followed by
\* the token; for the empty token no Authorization header is set.
C8_AuthorizationHeader ==
    Built =>
        IF args.token = <<>>
            THEN "Authorization" \notin DOMAIN httpReq.header
        ELSE /\ "Authorization" \in DOMAIN httpReq.header
             /\ httpReq.header["Authorization"] =
                    IF \E i \in 1..Len(args.token) :
                           /\ i + Len(ThingPrefix) - 1 <= Len(args.token)
                           /\ \A j \in 1..Len(ThingPrefix) :
                                  args.token[i + j - 1] = ThingPrefix[j]
                        THEN <<args.token>>
                        ELSE <<BearerPrefix \o args.token>>

\* A token that holds the marker after other text has been sent unchanged.
C8_Witness ==
    /\ Built
    /\ args.token = <<"x">> \o ThingPrefix \o <<"k">>
    /\ httpReq.header["Authorization"] = <<args.token>>

\* C9, as stated: a non-empty token is sent unchanged exactly when it begins
\* with "Thing "; every other non-empty token is sent as "Bearer " followed
\* by the token.
C9_AsStated ==
    (Built /\ args.token # <<>>)
        => /\ (httpReq.header["Authorization"] = <<args.token>>)
                  <=> HasPrefix(args.token, ThingPrefix)
           /\ ~HasPrefix(args.token, ThingPrefix)
                  => httpReq.header["Authorization"] = <<BearerPrefix \o args.token>>

(***************************************************************************)
(* Properties of PageMetadata.query (checked under SpecQuery)              *)
(***************************************************************************)
\* url.ParseQuery, as far as the parameters' names: the elements of the
\* encoded text that stand at the start or after an "&".
ParamNames(text) ==
    { text[i] : i \in { j \in 1..Len(text) : j = 1 \/ text[j - 1] = "&" } }

\* How many parameters of the text carry the name k.
ParamCount(text, k) ==
    Cardinality({ j \in 1..Len(text) : (j = 1 \/ text[j - 1] = "&") /\ text[j] = k })

\* The value of the first parameter named k: what follows "k=" up to the
\* next "&".
ParamValue(text, k) ==
    LET j   == CHOOSE x \in 1..Len(text) : (x = 1 \/ text[x - 1] = "&") /\ text[x] = k
        end == IF \E y \in (j + 2)..Len(text) : text[y] = "&"
                  THEN (CHOOSE y \in (j + 2)..Len(text) :
                            text[y] = "&" /\ \A z \in (j + 2)..(y - 1) : text[z] # "&") - 1
                  ELSE Len(text)
    IN  SubSeq(text, j + 2, end)

QueryReturned == pc = "returned" /\ args.call = "query"

\* C10, as stated: when query succeeds, its text holds a parameter for a
\* field exactly when the field is not zero, for every field of
\* PageMetadata (Permission and OwnerID among them), and a metadata map that
\* is present is exactly one parameter "metadata" holding its JSON text.
C10_AsStated ==
    (QueryReturned /\ out.err = Nil)
        => /\ \A f \in FieldSet :
                  (JsonName(f) \in ParamNames(out.text)) <=> (args.pm[f] # Zero(f))
           /\ ~args.pm["Metadata"].isNil
                  => /\ ParamCount(out.text, "metadata") = 1
                     /\ ParamValue(out.text, "metadata") = QueryEscape(Marshal(args.pm["Metadata"]))

\* The positions of the text at which a parameter starts.
ParamStarts(text) == { j \in 1..Len(text) : j = 1 \/ text[j - 1] = "&" }

\* The pairs <<a, b>> of parameter names such that some PageMetadata of the
\* domain serializes a before b.
SerializedBefore ==
    UNION { LET t == query(pm).text
            IN  { <<t[ij[1]], t[ij[2]]>> :
                      ij \in { x \in ParamStarts(t) \X ParamStarts(t) : x[1] < x[2] } } :
            pm \in PageMetadatas }

\* C11: the parameters appear in one fixed order: two parameters of the
\* text returned are serialized in the opposite order by no PageMetadata,
\* whatever its values.
C11_FixedOrder ==
    QueryReturned =>
        \A i \in ParamStarts(out.text) : \A j \in ParamStarts(out.text) :
            i < j => <<out.text[j], out.text[i]>> \notin SerializedBefore

\* A PageMetadata with Offset and Limit has been serialized: limit comes
\* before offset.
C11_Witness ==
    /\ QueryReturned
    /\ args.pm["Offset"] = 7
    /\ args.pm["Limit"] = 10
    /\ out.text = <<"limit", "=", "1", "0", "&", "offset", "=", "7">>

(***************************************************************************)
(* Properties of processRequest's results (checked under SpecSDK)          *)
(***************************************************************************)
ProcessRequestReturned == pc = "returned" /\ args.call = "processRequest"

\* The HTTP client answered with a status the call expects.
ExpectedStatus ==
    /\ httpResp # NoReply
    /\ ~httpResp.reply.fail
    /\ httpResp.reply.status \in args.expected

\* C12: processRequest returns a nil error only when the backend answered
\* with a status of the call's expected set, and then the response's headers
\* and body; for any other status, a transport failure or a body-read
\* failure the error is not nil, the headers are empty and the body is empty.
C12_DataOnlyWhenExpected ==
    ProcessRequestReturned =>
        /\ out.err = Nil => ExpectedStatus
        /\ out.err = Nil => (out.header = httpResp.reply.header /\ out.body = httpResp.reply.body)
        /\ (~ExpectedStatus \/ ~httpResp.reply.readOK)
               => (out.err # Nil /\ out.header = NoHeader /\ out.body = <<>>)

\* The backend answered 400 to a call that expects 200 or 201, with a body
\* that can be read: an error carrying the status, and no data.
C12_Witness ==
    /\ ProcessRequestReturned
    /\ httpResp # NoReply
    /\ ~httpResp.reply.fail
    /\ httpResp.reply.status = StatusBadRequest
    /\ httpResp.reply.readOK
    /\ args.expected = {200, 201}
    /\ out.err # Nil
    /\ out.err.status = StatusBadRequest
    /\ out.header = NoHeader
    /\ out.body = <<>>

(***************************************************************************)
(* Properties of the bulk decoders (checked under Spec)                    *)
(***************************************************************************)
\* The decoder of the request being served has run (to its return or to a
\* fault).
Decoded == Serving /\ pc \in {"decoded", "done", "panicked"}

BulkRequest == Serving /\ RouteOfRequest(r).decoder \in BulkDecoders

\* The request carries a file whose name does not end in ".csv".
NotCsvUpload ==
    /\ r.file # NoFile
    /\ LET n == r.file.name
       IN  \/ Len(n) < 4
           \/ <<n[Len(n) - 3], n[Len(n) - 2], n[Len(n) - 1], n[Len(n)]>> # <<".", "c", "s", "v">>

\* C13: in every bulk decoder, an uploaded file whose name does not end in
\* ".csv" is rejected with an error before any row is read (no call of
\* csvr.Read), no request value is returned and the endpoint is not invoked.
C13_SuffixBeforeRows ==
    (Decoded /\ BulkRequest /\ NotCsvUpload)
        => /\ pc # "panicked"
           /\ err # Nil
           /\ request = NilReq
           /\ reads = 0
           /\ called = "none"

\* An authenticated upload of u.txt with rows to the connect decoder has
\* been rejected as an unsupported file, no row read.
C13_Witness ==
    /\ Decoded
    /\ RouteOfRequest(r).decoder = "decodeConnect"
    /\ r.token # NoCookie
    /\ r.formOK
    /\ r.file.name = <<"u", ".", "t", "x", "t">>
    /\ Len(r.file.rows) = MaxRows
    /\ err = ErrUnsupportedFile
    /\ request = NilReq
    /\ reads = 0

\* The last call of csvr.Read met a row that does not parse: a bare quote in
\* a field, or a number of fields other than the first row's.
RowParseError ==
    /\ reads \in 1..Len(r.file.rows)
    /\ \/ \E k \in 1..Len(r.file.rows[reads]) : r.file.rows[reads][k] = BareQuote
       \/ Len(r.file.rows[reads]) # Len(r.file.rows[1])

\* C14: in every bulk decoder a row-parse error at any row aborts the whole
\* decode: the decoder returns an error and no request value, the endpoint
\* is not invoked, and nothing collected from earlier rows is returned.
C14_RowErrorAborts ==
    (Decoded /\ BulkRequest /\ RowParseError)
        => /\ pc # "panicked"
           /\ err # Nil
           /\ request = NilReq
           /\ called = "none"

\* The users decoder has read a row of three fields and then a row with a
\* bare quote: the error of the second row, and no request value.
C14_Witness ==
    /\ Decoded
    /\ RouteOfRequest(r).decoder = "decodeUsersCreation"
    /\ r.file.rows = << <<"n1", "e1", "p1">>, <<BareQuote>> >>
    /\ reads = 2
    /\ err = CsvBareQuote
    /\ request = NilReq

\* The columns the decoder of the request indexes in every row.
ColumnsRead == IF RouteOfRequest(r).decoder = "decodeUsersCreation" THEN 3 ELSE 1

\* An authenticated upload of a .csv file whose rows all parse and hold the
\* columns the decoder reads.
WellFormedUpload ==
    /\ r.token # NoCookie
    /\ r.formOK
    /\ r.file # NoFile
    /\ ~NotCsvUpload
    /\ \A i \in 1..Len(r.file.rows) :
           /\ \A k \in 1..Len(r.file.rows[i]) : r.file.rows[i][k] # BareQuote
           /\ Len(r.file.rows[i]) = Len(r.file.rows[1])
           /\ Len(r.file.rows[i]) >= ColumnsRead

\* The list l holds column c of the file's rows, in file order.
IsColumn(l, c) ==
    /\ Len(l) = Len(r.file.rows)
    /\ \A i \in 1..Len(r.file.rows) : l[i] = r.file.rows[i][c]

\* C15: for an upload of n well-formed rows (n >= 0) each bulk decoder
\* returns lists of length n in file order: users Names/Emails/Passwords
\* from columns 0/1/2, the other creations Names from column 0, connect and
\* disconnect ThingIDs from column 0 and ChannelIDs the form's chanID at
\* every position.
C15_ListsInFileOrder ==
    (Decoded /\ BulkRequest /\ WellFormedUpload)
        => /\ pc # "panicked"
           /\ request # NilReq
           /\ pc = "decoded" => err = Nil
           /\ LET d == RouteOfRequest(r).decoder
              IN  CASE d = "decodeUsersCreation" ->
                           /\ IsColumn(request.Names, 1)
                           /\ IsColumn(request.Emails, 2)
                           /\ IsColumn(request.Passwords, 3)
                    [] d \in {"decodeConnect", "decodeDisconnect"} ->
                           /\ IsColumn(request.ThingIDs, 1)
                           /\ Len(request.ChannelIDs) = Len(r.file.rows)
                           /\ \A i \in 1..Len(r.file.rows) : request.ChannelIDs[i] = r.chanID
                    [] OTHER -> IsColumn(request.Names, 1)

\* The users decoder has returned the lists of a file of two different rows.
C15_Witness ==
    /\ Decoded
    /\ RouteOfRequest(r).decoder = "decodeUsersCreation"
    /\ r.file.rows = << <<"n3", "e3", "p3">>, <<"n1", "e1", "p1">> >>
    /\ request # NilReq
    /\ request.Names = <<"n3", "n1">>
    /\ request.Emails = <<"e3", "e1">>
    /\ request.Passwords = <<"p3", "p1">>

(***************************************************************************)
(* Scenarios (checked under Spec)                                          *)
(***************************************************************************)
\* The bulk-import scenario: an authenticated POST /users/bulk of the
\* three-row file whose second row is malformed.
BulkScenario ==
    /\ Serving
    /\ r.method = "POST"
    /\ r.path = <<"users", "bulk">>
    /\ r.token # NoCookie
    /\ r.formOK
    /\ r.file = ScenarioFile

\* C16, as stated: in the bulk-import scenario the create-user call for row 1
\* has been issued (the create-users endpoint, which issues the calls, has
\* been invoked with row 1's user), rows 2 and 3 are not processed, and the
\* response reports an error.
C16_AsStated ==
    (Answered /\ BulkScenario)
        => /\ called = "createUsersEndpoint"
           /\ request # NilReq
           /\ request.Names = <<"n1">>
           /\ reads = 2
           /\ w.status >= 400

\* The connect-thing request of a single channel and a single thing.
SingleConnection(channel, thing) ==
    /\ request # NilReq
    /\ request.type = "connectThingReq"
    /\ request.ChannelIDs = <<channel>>
    /\ request.ThingIDs = <<thing>>

ConnectThingPost(path) ==
    /\ Serving
    /\ r.method = "POST"
    /\ r.path = path
    /\ r.token # NoCookie
    /\ r.formOK

\* C17, as stated: a POST to /things/:id/connectThing carrying a thingID is
\* dispatched to the connect-thing decoder and endpoint and yields one
\* connection request of one channel (the path parameter) and one thing
\* (the form's thingID).
C17_AsStated ==
    (Answered /\ ConnectThingPost(<<"things", "id1", "connectThing">>))
        => /\ RouteOfRequest(r).decoder = "decodeConnectThing"
           /\ called = "connectThingEndpoint"
           /\ SingleConnection("id1", r.thingID)

\* C17, amended: a POST to /channels/:id/connectThing carrying a thingID is
\* dispatched to the connect-thing decoder and endpoint and yields one
\* connection request of one channel (the path parameter) and one thing
\* (the form's thingID).
C17_ConnectThingOnChannels ==
    (Decoded /\ ConnectThingPost(<<"channels", "id1", "connectThing">>))
        => /\ RouteOfRequest(r).decoder = "decodeConnectThing"
           /\ RouteOfRequest(r).endpoint = "connectThingEndpoint"
           /\ called \in {"none", "connectThingEndpoint"}
           /\ Answered => called = "connectThingEndpoint"
           /\ SingleConnection("id1", r.thingID)

\* POST /channels/id1/connectThing with thingID t1 has been answered by the
\* connect-thing endpoint.
C17_Witness ==
    /\ Answered
    /\ ConnectThingPost(<<"channels", "id1", "connectThing">>)
    /\ r.thingID = "t1"
    /\ called = "connectThingEndpoint"
    /\ SingleConnection("id1", "t1")

(***************************************************************************)
(* Properties of the shared referer (checked under SpecRace)               *)
(***************************************************************************)
\* C18: referer is one variable of the process: the auth extraction of
\* every request, whichever goroutine serves it, stores the request's URL
\* in it, and the refresh-token decoder's ref is what it loads from it,
\* whichever request stored it.
C18_SharedReferer ==
    [][\A h \in Handlers :
          /\ (pc[h] = "accepted" /\ pc'[h] = "storing")
                 => referer'.data = URLString(r[h].rq)
          /\ (pc[h] = "storing" /\ pc'[h] = "decoded")
                 => referer'.len = URLString(r[h].rq)
          /\ (pc[h] = "loading" /\ pc'[h] = "decoded")
                 => request'[h].ref = StringOf([data |-> request[h].data, len |-> referer.len])]_vars

\* While the request of one client is still being served, the refresh-token
\* request of another client has been decoded with ref equal to the URL of
\* the first client's request.
C18_Witness ==
    \E h \in Handlers : \E k \in Handlers \ {h} :
        /\ pc[h] = "decoded"
        /\ request[h].type = "refreshTokenReq"
        /\ pc[k] \in {"storing", "decoded"}
        /\ r[k].client # r[h].client
        /\ DecoderOf(r[k]) \in AuthDecoders
        /\ request[h].ref = URLString(r[k].rq)

(***************************************************************************)
(* One request for each call of processRequest (checked under SpecSDK)     *)
(***************************************************************************)
\* C19: a call of processRequest sends at most one HTTP request: the step
\* that sends it is the first send of the call and is also the step that
\* returns, so a transport failure or an unexpected status is returned at
\* once and nothing is sent again.
C19_AtMostOneRequest ==
    /\ [](sent <= 1)
    /\ [][sent' # sent =>
            /\ sent = 0 /\ sent' = 1
            /\ pc' = "returned"
            /\ out'.returned
            /\ (httpResp'.reply.fail \/ CheckError(httpResp'.reply, args.expected) # Nil)
                   => out'.err # Nil]_vars

\* The one request of a call failed in transport and the call has returned
\* the error.
C19_Witness ==
    /\ pc = "returned"
    /\ sent = 1
    /\ httpResp.received
    /\ httpResp.reply.fail
    /\ out.err # Nil

(***************************************************************************)
(* The order of the writes of encodeResponse (checked under Spec)          *)
(***************************************************************************)
ResponseEncoded == pc = "done" /\ response # NoResponse

\* The calls on the writer from position i on.
TraceFrom(i) == SubSeq(w.trace, i, Len(w.trace))

\* C20: encodeResponse first sets Content-Type to text/html, then sets the
\* response's extra headers (one of which may replace the Content-Type),
\* then sets its cookies in their order, then writes the status code, and
\* only then writes the body; a response marked empty has no body written.
C20_WriteOrder ==
    ResponseEncoded =>
        LET nh == Cardinality(DOMAIN response.headers)
            nc == Len(response.cookies)
        IN  /\ Len(w.trace) = 1 + nh + nc + 1 + (IF response.empty THEN 0 ELSE 1)
            /\ w.trace[1] = <<"Set", "Content-Type">>
            /\ { w.trace[1 + i] : i \in 1..nh } = { <<"Set", k>> : k \in DOMAIN response.headers }
            /\ \A i \in 1..nc : w.trace[1 + nh + i] = <<"SetCookie", response.cookies[i]>>
            /\ w.trace[1 + nh + nc + 1] = <<"WriteHeader", "">>
            /\ TraceFrom(1 + nh + nc + 2) = IF response.empty THEN <<>> ELSE << <<"Write", "">> >>
            /\ w.status = response.code
            /\ w.body = IF response.empty THEN <<>> ELSE response.html
            /\ w.header["Content-Type"] =
                   IF "Content-Type" \in DOMAIN response.headers
                       THEN response.headers["Content-Type"] ELSE contentType

\* A response with a header, a cookie and the empty mark has been encoded.
C20_Witness ==
    /\ ResponseEncoded
    /\ response.empty
    /\ DOMAIN response.headers # {}
    /\ response.cookies # <<>>
    /\ w.status = StatusSeeOther

(***************************************************************************)
(* The referer of one request after another (checked under Spec)           *)
(***************************************************************************)
\* A value referer never holds.
FreshReferer == <<"<fresh>">>

\* The decoder of request rq calls getAuthorization: it stores in referer.
AuthExtractionRuns(rq) ==
    /\ Dispatch[rq.method, rq.path] # 0
    /\ LET rt == RouteOfRequest(rq)
       IN  Decode(rt.decoder, rt, rq, FreshReferer).referer # FreshReferer

\* A request is taken from the connection and decoded, or served a file.
RequestStep == pc = "idle" /\ pc' # "idle"

\* C21: with one request served after another, referer is empty at the
\* start, is set to the request's URL by a decoder that runs the auth
\* extraction and is changed by nothing else, and the ref of a decoded
\* refresh-token request is the value referer held when the request came:
\* the URL of the latest request whose auth extraction ran, or empty.
C21_RefIsLatestExtraction ==
    /\ referer = <<>>
    /\ [][/\ RequestStep =>
               /\ referer' = IF AuthExtractionRuns(r') THEN URLString(r') ELSE referer
               /\ request'.type = "refreshTokenReq" => request'.ref = referer
          /\ ~RequestStep => referer' = referer]_vars

\* A refresh-token request decoded after an auth extraction: its ref is the
\* URL of that earlier request.
C21_Witness ==
    /\ pc = "decoded"
    /\ request.type = "refreshTokenReq"
    /\ request.ref # <<>>
    /\ request.ref = referer
    /\ request.ref # URLString(r)

(***************************************************************************)
(* GET /refresh_token (checked under Spec)                                 *)
(***************************************************************************)
RefreshTokenGet == Decoded /\ r.method = "GET" /\ r.path = <<"refresh_token">>

\* C22: GET /refresh_token without the cookie "refresh_token" fails in the
\* decoder with an error that contains errNoCookie and is answered with 302
\* and Location /login; with the cookie the decoder succeeds and the
\* request's RefreshToken is the cookie's value, with or without the cookie
\* "token".
C22_RefreshTokenCookie ==
    RefreshTokenGet =>
        IF r.refresh = NoCookie
            THEN /\ request = NilReq
                 /\ Contains(err, errNoCookie)
                 /\ called = "none"
                 /\ pc = "done" => RedirectsTo(w, StatusFound, "/login")
            ELSE /\ request.type = "refreshTokenReq"
                 /\ request.RefreshToken = r.refresh
                 /\ pc = "decoded" => err = Nil

\* The request without the cookie has been answered.
C22_Witness ==
    /\ RefreshTokenGet
    /\ pc = "done"
    /\ r.refresh = NoCookie
    /\ w.status = StatusFound

(***************************************************************************)
(* The Content-Type of the request of processRequest (under SpecSDK)       *)
(***************************************************************************)
\* C23, as stated: a Content-Type passed in the headers argument is the
\* only Content-Type value of the request; with none passed the request
\* carries application/json.
C23_AsStated ==
    Built =>
        httpReq.header["Content-Type"] =
            IF "Content-Type" \in DOMAIN args.headers
                THEN <<args.headers["Content-Type"]>>
                ELSE <<CTJSON>>

(***************************************************************************)
(* Literal routes, parameter routes and the catch-all (checked under Spec) *)
(***************************************************************************)
\* Route i is a literal route of the method and path of the request served.
LiteralRouteOfRequest(i) ==
    /\ ~HasParam(Routes[i].path)
    /\ Routes[i].method = r.method
    /\ Routes[i].path = r.path

\* Some registered route other than the catch-all matches the request.
ExplicitRouteMatches ==
    \/ \E i \in 1..Len(Routes) : RouteMatches(Routes[i], r.method, r.path)
    \/ \E i \in 1..Len(PlainRoutes) : RouteMatches(PlainRoutes[i], r.method, r.path)

\* C24: a request whose path is that of a literal route of its method is
\* decoded by that route's decoder and handled by that route's endpoint,
\* also when a route with a parameter matches the path; the file server of
\* "/*" answers only requests that no other route matches.
C24_LiteralRoutesFirst ==
    Serving =>
        /\ \A i \in 1..Len(Routes) :
               LiteralRouteOfRequest(i) =>
                   /\ pc = "decoded" =>
                         LET d == Decode(Routes[i].decoder, Routes[i], r, referer)
                         IN  request = d.req /\ err = d.err
                   /\ called \in {"none", Routes[i].endpoint}
        /\ called = "fs" => ~ExplicitRouteMatches

\* POST /users/bulk, which /users/:id matches too, has been handled by the
\* endpoint of the bulk route.
C24_Witness ==
    /\ pc = "done"
    /\ r.method = "POST"
    /\ r.path = <<"users", "bulk">>
    /\ MatchParam(<<"users", ":id">>, r.path)
    /\ called = "createUsersEndpoint"

(***************************************************************************)
(* What auth extraction does to referer (checked under Spec)               *)
(***************************************************************************)
\* The decoder of the request served has returned what only a decoder that
\* ran getAuthorization returns: the error of the missing cookie "token",
\* or a request value that carries the token.
ExtractionFailed ==
    /\ pc = "decoded"
    /\ r.path # <<"refresh_token">>
    /\ Contains(err, errNoCookie)

ExtractionSucceeded ==
    /\ pc = "decoded"
    /\ request # NilReq
    /\ "token" \in DOMAIN request

\* C25: getAuthorization stores the request's URL in referer before it
\* reads the cookie: after every auth extraction, also one that failed for
\* the missing cookie, referer is the URL of the request just decoded.
C25_RecordedBeforeCookie ==
    (ExtractionFailed \/ ExtractionSucceeded) => referer = URLString(r)

\* An auth extraction has failed for the missing cookie and referer holds
\* the URL of its request.
C25_Witness ==
    /\ ExtractionFailed
    /\ r.token = NoCookie
    /\ referer = URLString(r)
    /\ referer # <<>>

(***************************************************************************)
(* The decoders that leave referer alone (checked under Spec)              *)
(***************************************************************************)
\* GET /login, POST /login, GET /refresh_token, GET /logout, GET /password.
NoExtractionRequest(rq) ==
    \/ rq.path \in { <<"login">> } /\ rq.method \in {"GET", "POST"}
    \/ rq.path \in { <<"refresh_token">>, <<"logout">>, <<"password">> } /\ rq.method = "GET"

\* The URLs of the requests to the routes whose decoder asks for the token.
TokenRouteURLs ==
    { URLString(rq) : rq \in { q \in RoutedRequests : RouteOfRequest(q).decoder \in AuthDecoders } }

\* C26: the decoders of GET /login, POST /login, GET /refresh_token,
\* GET /logout and GET /password leave referer as it was; at every moment
\* referer is empty or the URL of a request to a route that asks for the
\* token, and is never the URL of /refresh_token, /login or /logout.
C26_OnlyAuthExtractionWrites ==
    /\ [](/\ referer = <<>> \/ referer \in TokenRouteURLs
          /\ referer \notin { <<"refresh_token">>, <<"login">>, <<"logout">> })
    /\ [][(RequestStep /\ NoExtractionRequest(r')) => referer' = referer]_vars

\* GET /logout has been decoded and referer still holds the URL of an
\* earlier request.
C26_Witness ==
    /\ pc = "decoded"
    /\ r.method = "GET"
    /\ r.path = <<"logout">>
    /\ referer # <<>>
    /\ referer # URLString(r)

(***************************************************************************)
(* encodeError as a whole (checked under SpecErr)                          *)
(***************************************************************************)
\* The status of the first class an error belongs to, the classes taken in
\* the order: no-cookie or login failure, malformed data or subtopic,
\* unauthorized access, authentication failure, gRPC status, none.
FirstClassStatus(e) ==
    IF IsLoginKind(e) THEN StatusFound
    ELSE IF IsMalformedKind(e) THEN StatusBadRequest
    ELSE IF Contains(e, ErrUnauthorizedAccess) THEN StatusForbidden
    ELSE IF Contains(e, ErrAuthentication) THEN StatusSeeOther
    ELSE IF FromErrorOk(e)
        THEN (IF FromErrorCode(e) = "PermissionDenied"
                 THEN StatusForbidden ELSE StatusServiceUnavailable)
    ELSE StatusInternalServerError

\* The calls of WriteHeader on the writer.
StatusWrites == { i \in 1..Len(w.trace) : w.trace[i][1] = "WriteHeader" }

\* C27: for every error encodeError writes a status exactly once, one of
\* 302, 400, 403, 303, 503 and 500, and it is the status of the first class
\* the error belongs to; Location is set exactly when the status is 302 or
\* 303; no body is written.
C27_TotalAndOrdered ==
    Encoded =>
        /\ Cardinality(StatusWrites) = 1
        /\ w.status \in { StatusFound, StatusBadRequest, StatusForbidden, StatusSeeOther,
                          StatusServiceUnavailable, StatusInternalServerError }
        /\ w.status = FirstClassStatus(err)
        /\ HasHeader(w, "Location") <=> w.status \in {StatusFound, StatusSeeOther}
        /\ w.body = <<>>
        /\ \A i \in 1..Len(w.trace) : w.trace[i][1] # "Write"

\* An error of two classes, unauthorized access wrapped around an
\* authentication failure, has been answered with the status of the
\* earlier class and no Location.
C27_Witness ==
    /\ Encoded
    /\ err = Wrap(ErrUnauthorizedAccess, ErrAuthentication)
    /\ w.status = StatusForbidden
    /\ ~HasHeader(w, "Location")

(***************************************************************************)
(* The creation decoders: form fields before the token (under Spec)        *)
(***************************************************************************)
\* A request to create a user, thing, channel or group in which a JSON form
\* field the decoder unmarshals is absent or not valid JSON.
CreationWithBadField(rq) ==
    /\ rq.method = "POST"
    /\ \/ rq.path \in { <<"users">>, <<"things">> }
          /\ (rq.metadata # "valid" \/ rq.tags # "valid")
       \/ rq.path \in { <<"channels">>, <<"groups">> }
          /\ rq.metadata # "valid"

\* C28: the decoders of POST /users, /things, /channels and /groups
\* unmarshal the form field metadata (and tags) before the auth extraction:
\* when a field is absent or not valid JSON the decoder returns the error
\* of json.Unmarshal and no request value, referer keeps its value, and
\* the error is not the no-cookie error even without the cookie "token".
C28_JsonBeforeAuth ==
    [][(RequestStep /\ CreationWithBadField(r')) =>
           /\ pc' = "decoded"
           /\ referer' = referer
           /\ request' = NilReq
           /\ err' \in {JsonEOFError, JsonSyntaxError}
           /\ ~Contains(err', errNoCookie)]_vars

\* POST /users with tags that are not JSON and without the cookie has been
\* decoded: the error is the JSON error and referer is not the request's URL.
C28_Witness ==
    /\ pc = "decoded"
    /\ r.method = "POST"
    /\ r.path = <<"users">>
    /\ r.metadata = "valid"
    /\ r.tags = "invalid"
    /\ r.token = NoCookie
    /\ err = JsonSyntaxError
    /\ referer # URLString(r)

(***************************************************************************)
(* decodeUsersCreation and short rows (checked under Spec)                 *)
(***************************************************************************)
\* C29, as stated: for every uploaded file, rows of fewer than three
\* columns included, decodeUsersCreation returns a request value or an
\* error: it never faults.
C29_AsStated ==
    (Serving /\ r.method = "POST" /\ r.path = <<"users", "bulk">>)
        => /\ pc # "panicked"
           /\ pc = "decoded" => (request # NilReq \/ err # Nil)

(***************************************************************************)
(* main and the channel errs (checked under SpecMain)                      *)
(***************************************************************************)
\* C30: each of the two goroutines sends on errs at most once, and a
\* goroutine about to send always finds room in errs, whose capacity is 2:
\* no sender blocks.  main takes the first value that reaches errs and
\* goes on to its end from there, whatever the other goroutine is doing
\* (a SIGINT that comes before signal.Notify ends the process at once).
C30_SendersNeverBlock ==
    /\ [](\A g \in Senders : pc[g] = "sending" => Len(errs) < ErrsCap)
    /\ [][/\ \A g \in Senders : pc[g] = "returned" => pc'[g] = "returned"
          /\ Len(errs') > Len(errs) =>
                 \E g \in Senders : /\ pc[g] = "sending"
                                    /\ pc'[g] = "returned"
                                    /\ errs' = Append(errs, operand[g])
          /\ (pc["main"] = "receive" /\ pc'["main"] = "log") =>
                 (errs # <<>> /\ err' = Head(errs))
          /\ pc["main"] \in {"log", "close", "exited"} =>
                 (err' = err /\ pc'["main"] \in {"log", "close", "exited", "killed"})]_vars

\* The server failed first: main has ended with the server's error while
\* the signal goroutine still waits for a signal and has sent nothing.
C30_Witness ==
    /\ pc["main"] = "exited"
    /\ pc["server"] = "returned"
    /\ pc["sigint"] = "waiting"
    /\ err \in ListenErrors

====
